---- MODULE Spec2Model ----
(***************************************************************************)
(* State-machine model of the per-camera processing pipeline of the        *)
(* seedeep backend: the centroid ObjectTracker, the FPS rate limiter, the  *)
(* session registry (services/stream_manager.py) and the websocket         *)
(* subscriber loop with its frame-source manager (api/websocket.py).       *)
(*                                                                         *)
(* Pixel coordinates are integers.  Distances are kept squared: for the    *)
(* small integers used here sqrt is monotone and exact enough that         *)
(*   norm(p - q) > max_distance   <=>   Dist2(p, q) > max_distance^2       *)
(* and ordering by norm is ordering by Dist2.                              *)
(***************************************************************************)
EXTENDS Integers, Sequences, FiniteSets, TLC

VARIABLES
  objects,          \* ObjectTracker.objects: dict in insertion order, as a sequence of TrackedObject
  disappeared,      \* ObjectTracker.disappeared: track_id -> consecutive misses
  kalman_filters,   \* ObjectTracker.kalman_filters: the key set of the dict
  hist,             \* history of the tracker calls (ids issued, last update's inputs and matching)
  limiter,          \* one FPSRateLimiter: <<>> before construction, else <<its fields>>
  offers,           \* history of should_process_frame calls: the time read and the answer
  last_call,        \* history of the limiter's calls: the last one, the rate last asked for
  streams,          \* stream_manager_ws.streams: camera id -> the open VideoCapture, if any
  running,          \* stream_manager_ws.running: camera id -> bool
  caps,             \* every VideoCapture opened: who opened it, how often release() was called
  captured,         \* camera id -> number of frames read from the camera so far
  active_connections, \* manager.active_connections: camera id -> set of websockets
  active_streams,   \* stream_manager.active_streams: camera id -> the CameraStream, if any
  sessions,         \* camera id -> number of CameraStream objects constructed for it
  source_dead,      \* camera id -> the camera has stopped yielding frames: every cap.read() fails
  sub,              \* per websocket: the camera_websocket coroutine (position, client state, frames)
  worker,           \* per websocket: its process_frame_sync call on the thread pool
  registry,         \* StreamManager.active_streams in full: camera id -> the CameraStream, if any
  trackers_made,    \* number of ObjectTracker() constructions by the sessions so far
  reg_hist,         \* history of the registry calls: the last one, its arguments, the state before
  relay,            \* one proxy_camera_stream call and its stream_generator: position and locals
  upstream,         \* the camera's HTTP side: requests received, the open response, the body read
  client,           \* the relay's subscriber: the response it got, the chunks delivered, gone or not
  camera_row,       \* the cameras table: the committed row of the one camera, if it exists
  calib_hist,       \* history of the calibration calls: the last one, its arguments, the row before
  admin,            \* one administrative PATCH request: its retry loop, the sleeps, the answer
  frame_call,       \* the last process_frame_sync call: the camera, the models, the result built
  digest,           \* one DigestAuth object: its credentials and its nonce counter nc
  digest_call,      \* the last _build_digest_header call: the challenge, the header built
  feature_rows,     \* the cameras table: the committed features column of each camera
  loop_camera,      \* the camera object a running subscriber loop fetched at its start
  session_hist      \* history: the admin's last switch of tracking, the last frame's block

trackerVars == <<objects, disappeared, kalman_filters, hist>>
govVars == <<limiter, offers, last_call>>
regVars == <<registry, trackers_made, reg_hist>>
relayVars == <<relay, upstream, client>>
calibVars == <<camera_row, calib_hist>>
adminVars == <<admin>>
frameVars == <<frame_call>>
digestVars == <<digest, digest_call>>
sessionVars == <<feature_rows, loop_camera, session_hist>>
apiVars == <<calibVars, adminVars, frameVars, digestVars, sessionVars>>
wsVars == <<streams, running, caps, captured, active_connections, active_streams,
            sessions, source_dead, sub, worker>>
\* Everything outside the HTTP API of the cameras and the frame pipeline's result
coreVars == <<trackerVars, govVars, wsVars, regVars, relayVars>>
vars == <<objects, disappeared, kalman_filters, hist, limiter, offers, last_call, streams, running,
          caps, captured, active_connections, active_streams, sessions, source_dead, sub, worker,
          registry, trackers_made, reg_hist, relay, upstream, client,
          camera_row, calib_hist, admin, frame_call, digest, digest_call,
          feature_rows, loop_camera, session_hist>>

(***************************************************************************)
(* Bounds of the model                                                     *)
(***************************************************************************)
\* ObjectTracker(max_disappeared=.., max_distance=..): the instance under check
max_disappeared == 1
max_distance == 2
\* number of update calls in one run
MaxUpdates == 3
\* most objects the tracker is let to hold
MaxObjects == 3
\* most times in one run that uuid4's 8-character prefix repeats an earlier one
MaxCollisions == 1
\* latest reading of time.time(), in hundredths of a second
MaxTime == 21
\* number of should_process_frame calls in one run
MaxOffers == 4
\* frames the camera yields in one run
MaxFrames == 3
\* number of calls on the session registry in one run
MaxRegistryOps == 4
\* chunks of the upstream body read in one relay
MaxChunks == 3

(***************************************************************************)
(* Detections                                                              *)
(***************************************************************************)
\* Centroids of the boxes offered to the tracker.
Positions == {<<1, 1>>, <<3, 1>>, <<1, 3>>}

\* A Detection (schemas/detection.py): a 2x2 box around a position.
Box(p) == [x1 |-> p[1] - 1, y1 |-> p[2] - 1, x2 |-> p[1] + 1, y2 |-> p[2] + 1,
           confidence |-> 50 + p[1], class_id |-> 0]

Detections == {Box(p) : p \in Positions}

\* The detection lists handed to update: no, one or two detections.
DetLists == {<<>>} \cup {<<a>> : a \in Detections} \cup {<<a, b>> : a, b \in Detections}

Centroid(det) == <<(det.x1 + det.x2) \div 2, (det.y1 + det.y2) \div 2>>

Dist2(p, q) == (p[1] - q[1]) * (p[1] - q[1]) + (p[2] - q[2]) * (p[2] - q[2])

(***************************************************************************)
(* Dict helpers: objects is a Python dict, kept as the sequence of its     *)
(* values in insertion order, keyed by the track_id field.                 *)
(***************************************************************************)
Keys(objs) == {objs[i].track_id : i \in 1..Len(objs)}

IndexOf(objs, tid) == CHOOSE i \in 1..Len(objs) : objs[i].track_id = tid

\* objs[tid] = obj : replaces the value in place, or appends a new key
DictSet(objs, obj) ==
  IF obj.track_id \in Keys(objs)
  THEN [objs EXCEPT ![IndexOf(objs, obj.track_id)] = obj]
  ELSE Append(objs, obj)

\* objs.pop(tid, None)
DictPop(objs, tid) == SelectSeq(objs, LAMBDA o : o.track_id # tid)

FunSet(f, k, v) == [x \in DOMAIN f \cup {k} |-> IF x = k THEN v ELSE f[x]]

FunPop(f, k) == [x \in DOMAIN f \ {k} |-> f[x]]

(***************************************************************************)
(* ObjectTracker                                                           *)
(***************************************************************************)
\* The tracker's three dicts as one value.
TrackerState == [objects |-> objects, disappeared |-> disappeared,
                 kalman_filters |-> kalman_filters]

\* str(uuid.uuid4())[:8]: a draw from the 16^8 strings.  Up to renaming, a draw
\* is either a string never drawn before (the next number) or one drawn before.
uuid4_prefix(issued) ==
  {Cardinality({issued[i] : i \in 1..Len(issued)}) + 1} \cup {issued[i] : i \in 1..Len(issued)}

\* deque(maxlen=100)
trajectory_maxlen == 100

\* deque.append: the oldest element goes when the deque is full
DequeAppend(q, x) == IF Len(q) >= trajectory_maxlen THEN Append(Tail(q), x) ELSE Append(q, x)

\* np.sqrt of a squared length, exactly, as <<a, b>> for a + b * sqrt(2): the
\* displacements between the positions of the model have such lengths
Sqrt(d2) ==
  IF \E n \in 0..d2 : n * n = d2 THEN <<CHOOSE n \in 0..d2 : n * n = d2, 0>>
  ELSE <<0, CHOOSE n \in 0..d2 : 2 * n * n = d2>>

\* Mutant of NewTrackedObject: the trajectory is not seeded with the centroid.
NewTrackedObjectEmptyTrajectory(track_id, centroid, det) ==
  [track_id |-> track_id, class_id |-> det.class_id,
   bbox |-> <<det.x1, det.y1, det.x2, det.y2>>, confidence |-> det.confidence,
   centroid |-> centroid, velocity |-> <<0, 0>>, age |-> 1, hits |-> 1,
   time_since_update |-> 0, trajectory |-> <<>>, distance_traveled |-> <<0, 0>>]

\* TrackedObject(...) of lines 51-58 and obj.trajectory.append(centroid) of line 59
NewTrackedObject(track_id, centroid, det) ==
  [track_id |-> track_id, class_id |-> det.class_id,
   bbox |-> <<det.x1, det.y1, det.x2, det.y2>>, confidence |-> det.confidence,
   centroid |-> centroid, velocity |-> <<0, 0>>, age |-> 1, hits |-> 1,
   time_since_update |-> 0, trajectory |-> <<centroid>>, distance_traveled |-> <<0, 0>>]

register(T, centroid, det, track_id) ==
  [objects |-> DictSet(T.objects, NewTrackedObject(track_id, centroid, det)),
   disappeared |-> FunSet(T.disappeared, track_id, 0),
   kalman_filters |-> T.kalman_filters \cup {track_id}]

deregister(T, track_id) ==
  [objects |-> DictPop(T.objects, track_id),
   disappeared |-> FunPop(T.disappeared, track_id),
   kalman_filters |-> T.kalman_filters \ {track_id}]

\* Mutant of MarkDisappeared: the threshold test is >= instead of >.
MarkDisappearedAtThreshold(T, track_id) ==
  LET i == IndexOf(T.objects, track_id)
      T1 == [T EXCEPT !.disappeared[track_id] = @ + 1,
                      !.objects[i].time_since_update = @ + 1,
                      !.objects[i].age = @ + 1]
  IN IF T1.disappeared[track_id] >= max_disappeared THEN deregister(T1, track_id) ELSE T1

\* Mutant of MarkDisappeared: the age of the object is left as it was.
MarkDisappearedNoAge(T, track_id) ==
  LET i == IndexOf(T.objects, track_id)
      T1 == [T EXCEPT !.disappeared[track_id] = @ + 1,
                      !.objects[i].time_since_update = @ + 1]
  IN IF T1.disappeared[track_id] > max_disappeared THEN deregister(T1, track_id) ELSE T1

\* One pass of the "disappeared" bookkeeping for one track (lines 83-88, 168-173).
MarkDisappeared(T, track_id) ==
  LET i == IndexOf(T.objects, track_id)
      T1 == [T EXCEPT !.disappeared[track_id] = @ + 1,
                      !.objects[i].time_since_update = @ + 1,
                      !.objects[i].age = @ + 1]
  IN IF T1.disappeared[track_id] > max_disappeared THEN deregister(T1, track_id) ELSE T1

RECURSIVE MarkAll(_, _)
MarkAll(T, ids) ==
  IF ids = <<>> THEN T ELSE MarkAll(MarkDisappeared(T, Head(ids)), Tail(ids))

\* The elements of a finite set of integers, ascending.
RECURSIVE Ascending(_)
Ascending(S) ==
  IF S = {} THEN <<>>
  ELSE LET m == CHOOSE x \in S : \A y \in S : x <= y IN <<m>> \o Ascending(S \ {m})

\* The sequence <<F(1), ..., F(n)>>, built element by element.
RECURSIVE Tabulate(_, _)
Tabulate(F(_), n) == IF n = 0 THEN <<>> ELSE Append(Tabulate(F, n - 1), F(n))

\* D = norm(object_centroids[:, newaxis] - input_centroids, axis=2), squared
DistanceMatrix(object_centroids, input_centroids) ==
  LET Row(r) == LET Entry(c) == Dist2(object_centroids[r], input_centroids[c])
                IN Tabulate(Entry, Len(input_centroids))
  IN Tabulate(Row, Len(object_centroids))

\* D.min(axis=1)[r]
RowMin(D, r) ==
  CHOOSE v \in {D[r][c] : c \in DOMAIN D[r]} : \A c \in DOMAIN D[r] : v <= D[r][c]

\* Mutant of ArgMin: the last index of the row's minimum.
ArgMinLast(D, r) ==
  CHOOSE c \in DOMAIN D[r] :
    /\ D[r][c] = RowMin(D, r)
    /\ \A c2 \in DOMAIN D[r] : D[r][c2] = RowMin(D, r) => c >= c2

\* D.argmin(axis=1)[r]: the first index of the row's minimum
ArgMin(D, r) ==
  CHOOSE c \in DOMAIN D[r] :
    /\ D[r][c] = RowMin(D, r)
    /\ \A c2 \in DOMAIN D[r] : D[r][c2] = RowMin(D, r) => c <= c2

\* The orders that put the entries of v with index in S in ascending order.
RECURSIVE AscendingOrders(_, _)
AscendingOrders(v, S) ==
  IF S = {} THEN {<<>>}
  ELSE UNION {{<<i>> \o rest : rest \in AscendingOrders(v, S \ {i})} :
              i \in {j \in S : \A k \in S : v[j] <= v[k]}}

\* v.argsort() with numpy's default kind ('quicksort', documented as not stable):
\* any permutation that puts v in ascending order; equal keys come in any order.
argsort(v) == AscendingOrders(v, 1..Len(v))

\* Mutant of TooFar: the max_distance test is gone.
TooFarNever(d2) == FALSE

\* D[row, col] > self.max_distance
TooFar(d2) == d2 > max_distance * max_distance

\* Mutant of MatchStep: a column that is taken may be taken again.
MatchStepColsFree(acc, row, col, D) ==
  IF row \in acc.used_rows THEN acc
  ELSE IF TooFar(D[row][col]) THEN acc
  ELSE [used_rows |-> acc.used_rows \cup {row},
        used_cols |-> acc.used_cols \cup {col},
        pairs |-> Append(acc.pairs, <<row, col>>)]

\* One turn of the loop "for row, col in zip(rows, cols)" (lines 122-126, 161-162).
MatchStep(acc, row, col, D) ==
  IF row \in acc.used_rows \/ col \in acc.used_cols THEN acc
  ELSE IF TooFar(D[row][col]) THEN acc
  ELSE [used_rows |-> acc.used_rows \cup {row},
        used_cols |-> acc.used_cols \cup {col},
        pairs |-> Append(acc.pairs, <<row, col>>)]

RECURSIVE MatchLoop(_, _, _)
MatchLoop(acc, rows, D) ==
  IF rows = <<>> THEN acc
  ELSE MatchLoop(MatchStep(acc, Head(rows), ArgMin(D, Head(rows)), D), Tail(rows), D)

NoMatch == [used_rows |-> {}, used_cols |-> {}, pairs |-> <<>>]

\* Mutant of UpdateMatched: the velocity and the distance travelled are not touched.
UpdateMatchedNoMotion(T, track_id, det, new_centroid) ==
  LET i == IndexOf(T.objects, track_id)
  IN [T EXCEPT !.objects[i].centroid = new_centroid,
               !.objects[i].bbox = <<det.x1, det.y1, det.x2, det.y2>>,
               !.objects[i].confidence = det.confidence,
               !.objects[i].hits = @ + 1,
               !.objects[i].time_since_update = 0,
               !.objects[i].trajectory = DequeAppend(@, new_centroid),
               !.objects[i].age = @ + 1,
               !.disappeared[track_id] = 0]

\* Mutant of UpdateMatched: time_since_update is not reset.
UpdateMatchedKeepsMisses(T, track_id, det, new_centroid) ==
  LET i == IndexOf(T.objects, track_id)
      old_centroid == T.objects[i].centroid
      velocity == <<new_centroid[1] - old_centroid[1], new_centroid[2] - old_centroid[2]>>
      distance == Sqrt(velocity[1] * velocity[1] + velocity[2] * velocity[2])
  IN [T EXCEPT !.objects[i].centroid = new_centroid,
               !.objects[i].velocity = velocity,
               !.objects[i].bbox = <<det.x1, det.y1, det.x2, det.y2>>,
               !.objects[i].confidence = det.confidence,
               !.objects[i].hits = @ + 1,
               !.objects[i].trajectory = DequeAppend(@, new_centroid),
               !.objects[i].distance_traveled = <<@[1] + distance[1], @[2] + distance[2]>>,
               !.objects[i].age = @ + 1,
               !.disappeared[track_id] = 0]

\* Lines 128-160: the matched object takes the detection.
UpdateMatched(T, track_id, det, new_centroid) ==
  LET i == IndexOf(T.objects, track_id)
      old_centroid == T.objects[i].centroid
      velocity == <<new_centroid[1] - old_centroid[1], new_centroid[2] - old_centroid[2]>>
      distance == Sqrt(velocity[1] * velocity[1] + velocity[2] * velocity[2])
  IN [T EXCEPT !.objects[i].centroid = new_centroid,
               !.objects[i].velocity = velocity,
               !.objects[i].bbox = <<det.x1, det.y1, det.x2, det.y2>>,
               !.objects[i].confidence = det.confidence,
               !.objects[i].hits = @ + 1,
               !.objects[i].time_since_update = 0,
               !.objects[i].trajectory = DequeAppend(@, new_centroid),
               !.objects[i].distance_traveled = <<@[1] + distance[1], @[2] + distance[2]>>,
               !.objects[i].age = @ + 1,
               !.disappeared[track_id] = 0]

RECURSIVE ApplyMatches(_, _, _, _, _)
ApplyMatches(T, pairs, object_ids, detections, input_centroids) ==
  IF pairs = <<>> THEN T
  ELSE LET row == Head(pairs)[1]
           col == Head(pairs)[2]
       IN ApplyMatches(UpdateMatched(T, object_ids[row], detections[col], input_centroids[col]),
                       Tail(pairs), object_ids, detections, input_centroids)

RECURSIVE RegisterAll(_, _, _, _, _)
RegisterAll(T, cols, detections, input_centroids, ids) ==
  IF cols = <<>> THEN T
  ELSE RegisterAll(register(T, input_centroids[Head(cols)], detections[Head(cols)], Head(ids)),
                   Tail(cols), detections, input_centroids, Tail(ids))

\* object_ids = list(self.objects.keys())
ObjectIds(T) == LET Id(i) == T.objects[i].track_id IN Tabulate(Id, Len(T.objects))

\* object_centroids = [self.objects[oid].centroid for oid in object_ids]
ObjectCentroids(T) == LET C(i) == T.objects[i].centroid IN Tabulate(C, Len(T.objects))

\* input_centroids: the box midpoints, lines 92-96
InputCentroids(detections) ==
  LET C(i) == Centroid(detections[i]) IN Tabulate(C, Len(detections))

UpdateMatrix(T, detections) == DistanceMatrix(ObjectCentroids(T), InputCentroids(detections))

\* D.min(axis=1)
RowMins(D) == LET M(r) == RowMin(D, r) IN Tabulate(M, Len(D))

\* rows = D.min(axis=1).argsort(): the orders the call may use (none when it does not match)
RowOrders(T, detections) ==
  IF detections = <<>> \/ T.objects = <<>> THEN {<<>>}
  ELSE argsort(RowMins(UpdateMatrix(T, detections)))

\* Lines 81-89, 98-173: update(detections) up to the registration of new tracks,
\* under the order rows that argsort gave: the tracker after the matched and the
\* unmatched objects are handled, the (row, col) pairs assigned, and the columns
\* left to register, in the order of their registration.
MatchPhase(T, detections, rows) ==
  IF detections = <<>>
  THEN [T |-> MarkAll(T, ObjectIds(T)), pairs |-> <<>>, new_cols |-> <<>>]
  ELSE IF T.objects = <<>>
  THEN [T |-> T, pairs |-> <<>>, new_cols |-> Ascending(1..Len(detections))]
  ELSE LET object_ids == ObjectIds(T)
           m == MatchLoop(NoMatch, rows, UpdateMatrix(T, detections))
           T1 == ApplyMatches(T, m.pairs, object_ids, detections, InputCentroids(detections))
           unused_rows == Ascending((1..Len(object_ids)) \ m.used_rows)
           unused_cols == Ascending((1..Len(detections)) \ m.used_cols)
           Unmatched(k) == object_ids[unused_rows[k]]
       IN [T |-> MarkAll(T1, Tabulate(Unmatched, Len(unused_rows))),
           pairs |-> m.pairs, new_cols |-> unused_cols]

\* Lines 98-102 and 175-178: the detections left are registered, under the ids
\* uuid4 gave; mp is what MatchPhase left.
RegisterPhase(mp, detections, ids) ==
  RegisterAll(mp.T, mp.new_cols, detections, InputCentroids(detections), ids)

\* ObjectTracker.update(detections), with the order argsort gave and the ids uuid4 gave.
update(T, detections, rows, ids) ==
  RegisterPhase(MatchPhase(T, detections, rows), detections, ids)

\* How many draws repeated an earlier one.
Collisions(issued) == Len(issued) - Cardinality({issued[i] : i \in 1..Len(issued)})

\* The ids n consecutive register calls may return.
RECURSIVE IdDraws(_, _)
IdDraws(issued, n) ==
  IF n = 0 THEN {<<>>}
  ELSE UNION {{<<t>> \o rest : rest \in IdDraws(Append(issued, t), n - 1)} :
              t \in {u \in uuid4_prefix(issued) :
                       Collisions(Append(issued, u)) <= MaxCollisions}}

(***************************************************************************)
(* Tracker: initial state and the update action                            *)
(***************************************************************************)
TrackerInit ==
  /\ objects = <<>>
  /\ disappeared = <<>>
  /\ kalman_filters = {}
  /\ hist = [issued |-> <<>>, nupdates |-> 0, empty_run |-> 0, run_base |-> <<>>,
             detections |-> <<>>, pre |-> [objects |-> <<>>, disappeared |-> <<>>,
                                           kalman_filters |-> {}],
             rows |-> <<>>, pairs |-> <<>>, new_ids |-> <<>>, born |-> <<>>]

Update ==
  /\ hist.nupdates < MaxUpdates
  /\ \E detections \in DetLists :
       \E rows \in RowOrders(TrackerState, detections) :
         LET mp == MatchPhase(TrackerState, detections, rows)
         IN \E ids \in IdDraws(hist.issued, Len(mp.new_cols)) :
              LET T == RegisterPhase(mp, detections, ids)
              IN /\ Len(T.objects) <= MaxObjects
                 /\ objects' = T.objects
                 /\ disappeared' = T.disappeared
                 /\ kalman_filters' = T.kalman_filters
                 /\ hist' = [issued |-> hist.issued \o ids,
                             nupdates |-> hist.nupdates + 1,
                             empty_run |-> IF detections = <<>> THEN hist.empty_run + 1 ELSE 0,
                             run_base |-> IF detections = <<>> /\ hist.empty_run > 0
                                          THEN hist.run_base ELSE disappeared,
                             detections |-> detections,
                             pre |-> TrackerState,
                             rows |-> rows,
                             pairs |-> mp.pairs,
                             new_ids |-> ids,
                             born |-> [id \in Keys(T.objects) |->
                                         IF \E i \in 1..Len(ids) : ids[i] = id
                                         THEN hist.nupdates + 1 ELSE hist.born[id]]]
  /\ UNCHANGED <<govVars, wsVars, regVars, relayVars, apiVars>>

(***************************************************************************)
(* FPSRateLimiter (utils/FPSRateLimiter.py).  Time is counted in hundredths *)
(* of a second; frame_interval = 1.0 / target_fps is kept as the exact      *)
(* fraction <<100, target_fps>> of hundredths, so that no rounding of the   *)
(* model enters the comparison elapsed >= frame_interval.                   *)
(***************************************************************************)
None == <<>>

Some(x) == <<x>>

\* The target rates a limiter is constructed with.
FpsValues == {10, 30}

\* 1.0 / target_fps if target_fps > 0 else 0, as a fraction of hundredths
FrameInterval(target_fps) == IF target_fps > 0 THEN <<100, target_fps>> ELSE <<0, 1>>

\* FPSRateLimiter.__init__(target_fps) at time now
FPSRateLimiter(target_fps, now) ==
  [target_fps |-> target_fps, frame_interval |-> FrameInterval(target_fps),
   last_frame_time |-> None, frame_count |-> 0, start_time |-> now]

\* elapsed >= self.frame_interval
IntervalElapsed(elapsed, frame_interval) == elapsed * frame_interval[2] >= frame_interval[1]

\* Mutant of should_process_frame: the interval test is > instead of >=.
should_process_frame_strict(L, current_time) ==
  IF L.last_frame_time = None
  THEN [L |-> [L EXCEPT !.last_frame_time = Some(current_time), !.frame_count = @ + 1],
        result |-> TRUE]
  ELSE LET elapsed == current_time - L.last_frame_time[1]
       IN IF elapsed * L.frame_interval[2] > L.frame_interval[1]
          THEN [L |-> [L EXCEPT !.last_frame_time = Some(current_time), !.frame_count = @ + 1],
                result |-> TRUE]
          ELSE [L |-> L, result |-> FALSE]

\* FPSRateLimiter.should_process_frame() when time.time() reads current_time
should_process_frame(L, current_time) ==
  IF L.last_frame_time = None
  THEN [L |-> [L EXCEPT !.last_frame_time = Some(current_time), !.frame_count = @ + 1],
        result |-> TRUE]
  ELSE LET elapsed == current_time - L.last_frame_time[1]
       IN IF IntervalElapsed(elapsed, L.frame_interval)
          THEN [L |-> [L EXCEPT !.last_frame_time = Some(current_time), !.frame_count = @ + 1],
                result |-> TRUE]
          ELSE [L |-> L, result |-> FALSE]

\* The rates update_target_fps is called with.
NewFpsValues == {0, 10, 30}

\* Mutant of update_target_fps: the rate is stored, the interval is left as it was.
update_target_fps_stale(L, new_fps) == [L EXCEPT !.target_fps = new_fps]

\* FPSRateLimiter.update_target_fps(new_fps)
update_target_fps(L, new_fps) ==
  [L EXCEPT !.target_fps = new_fps, !.frame_interval = FrameInterval(new_fps)]

\* Mutant of reset: the count of accepted frames is left as it was.
reset_keeps_count(L, now) == [L EXCEPT !.last_frame_time = None, !.start_time = now]

\* FPSRateLimiter.reset() when time.time() reads now
reset(L, now) ==
  [L EXCEPT !.last_frame_time = None, !.frame_count = 0, !.start_time = now]

\* The clock does not run backwards between two calls of one run: the latest
\* reading so far, taken by should_process_frame, __init__ or reset.
LastReading ==
  LET offered == IF offers = <<>> THEN 0 ELSE offers[Len(offers)].t
      started == IF limiter = None THEN 0 ELSE limiter[1].start_time
  IN IF offered >= started THEN offered ELSE started

\* The readings of the clock in reset: that of the call before, or the next one.
ResetReadings == {t \in {LastReading, LastReading + 1} : t <= MaxTime}

GovInit ==
  /\ limiter = None
  /\ offers = <<>>
  /\ last_call = [op |-> "none", rate |-> 0, pre |-> None, changes |-> 0,
                  resets |-> 0, reset_at |-> 0]

\* fps_limiter = FPSRateLimiter(target_fps)
NewLimiter ==
  /\ limiter = None
  /\ \E target_fps \in FpsValues :
       /\ limiter' = Some(FPSRateLimiter(target_fps, 0))
       /\ last_call' = [last_call EXCEPT !.op = "init", !.rate = target_fps]
  /\ UNCHANGED <<offers, trackerVars, wsVars, regVars, relayVars, apiVars>>

\* fps_limiter.should_process_frame()
ShouldProcessFrame ==
  /\ limiter # None
  /\ Len(offers) < MaxOffers
  /\ \E current_time \in LastReading..MaxTime :
       LET r == should_process_frame(limiter[1], current_time)
       IN /\ limiter' = Some(r.L)
          /\ offers' = Append(offers, [t |-> current_time, accepted |-> r.result,
                                       rate |-> last_call.rate,
                                       after_update |-> last_call.op = "update"])
  /\ last_call' = [last_call EXCEPT !.op = "offer"]
  /\ UNCHANGED <<trackerVars, wsVars, regVars, relayVars, apiVars>>

\* fps_limiter.update_target_fps(new_fps), at any point after the construction;
\* a run makes at most one call of update_target_fps or reset
UpdateTargetFps ==
  /\ limiter # None
  /\ last_call.changes = 0
  /\ last_call.resets = 0
  /\ \E new_fps \in NewFpsValues :
       /\ limiter' = Some(update_target_fps(limiter[1], new_fps))
       /\ last_call' = [last_call EXCEPT !.op = "update", !.rate = new_fps,
                                          !.pre = limiter, !.changes = @ + 1]
  /\ UNCHANGED <<offers, trackerVars, wsVars, regVars, relayVars, apiVars>>

\* fps_limiter.reset(), at any point after the construction; reset_at is the
\* number of frames offered before it
Reset ==
  /\ limiter # None
  /\ last_call.changes = 0
  /\ last_call.resets = 0
  /\ \E now \in ResetReadings : limiter' = Some(reset(limiter[1], now))
  /\ last_call' = [last_call EXCEPT !.op = "reset", !.resets = @ + 1,
                                     !.reset_at = Len(offers)]
  /\ UNCHANGED <<offers, trackerVars, wsVars, regVars, relayVars, apiVars>>

GovNext == NewLimiter \/ ShouldProcessFrame \/ UpdateTargetFps \/ Reset

(***************************************************************************)
(* The websocket endpoint (api/websocket.py): the frame-source manager     *)
(* stream_manager_ws, the connection manager, one camera_websocket         *)
(* coroutine per connection and its process_frame_sync calls on the thread *)
(* pool; and the session registry stream_manager (services/).              *)
(*                                                                         *)
(* Coroutines run on one event loop: the code between two awaits is one    *)
(* step.  process_frame_sync runs on a pool thread: it is cut at each      *)
(* access to the registry and at the start and the end of tracker.update.  *)
(* The camera exists and has tracking enabled.  The answers of the rate    *)
(* limiter depend on the wall clock alone: here the first frame offered is *)
(* accepted and any later one is accepted or dropped.                      *)
(***************************************************************************)
Cameras == {"cam1"}

\* The websocket connections made to the camera in one run.
Subs == {1, 2}

\* The camera_id of the path /ws/camera/{camera_id} a connection was made to.
CameraOf(s) == "cam1"

\* ThreadPoolExecutor(max_workers=4)
thread_pool_max_workers == 4

\* stream_manager_ws as one value
WsManager == [streams |-> streams, running |-> running, caps |-> caps]

\* StreamManager.stop_stream(camera_id) of api/websocket.py
stop_stream(M, camera_id) ==
  IF M.streams[camera_id] # None
  THEN [streams |-> [M.streams EXCEPT ![camera_id] = None],
        running |-> [M.running EXCEPT ![camera_id] = FALSE],
        caps |-> [M.caps EXCEPT ![M.streams[camera_id][1]].released = @ + 1]]
  ELSE [M EXCEPT !.running[camera_id] = FALSE]

\* StreamManager.start_stream(camera_id, url) called by connection s; opened is
\* cap.isOpened().  The value is the manager afterwards and the bool returned.
start_stream(M, camera_id, s, opened) ==
  LET M1 == IF M.streams[camera_id] # None THEN stop_stream(M, camera_id) ELSE M
  IN IF ~opened THEN [M |-> M1, ok |-> FALSE]
     ELSE [M |-> [streams |-> [M1.streams EXCEPT ![camera_id] = Some(Len(M1.caps) + 1)],
                  running |-> [M1.running EXCEPT ![camera_id] = TRUE],
                  caps |-> Append(M1.caps, [opened_by |-> s, released |-> 0])],
           ok |-> TRUE]

\* ConnectionManager.disconnect(websocket, camera_id)
disconnect(conns, s, camera_id) == [conns EXCEPT ![camera_id] = @ \ {s}]

\* Mutant of LoopHead: the loop goes on without awaiting the executor's result.
LoopHeadNoAwait(s) == sub[s].pc \in {"loop", "await_result"}

\* The coroutine of s is at the head of "while stream_manager_ws.is_running(..)":
\* it comes back there only after the awaited result and the awaited send.
LoopHead(s) == sub[s].pc = "loop"

\* Pool threads at work.
Busy == Cardinality({s \in Subs : worker[s].wpc \notin {"idle", "queued", "done"}})

IdleWorker == [wpc |-> "idle", frame |-> 0, stream |-> None]

WsInit ==
  /\ streams = [c \in Cameras |-> None]
  /\ running = [c \in Cameras |-> FALSE]
  /\ caps = <<>>
  /\ captured = [c \in Cameras |-> 0]
  /\ active_connections = [c \in Cameras |-> {}]
  /\ active_streams = [c \in Cameras |-> None]
  /\ sessions = [c \in Cameras |-> 0]
  /\ source_dead = [c \in Cameras |-> FALSE]
  /\ sub = [s \in Subs |-> [pc |-> "start", gone |-> FALSE, cap |-> None, exit |-> "",
                            submitted |-> <<>>, delivered |-> <<>>, abandoned |-> {}]]
  /\ worker = [s \in Subs |-> IdleWorker]

\* await manager.connect(websocket, camera_id)
Connect(s) ==
  /\ sub[s].pc = "start"
  /\ active_connections' = [active_connections EXCEPT ![CameraOf(s)] = @ \cup {s}]
  /\ sub' = [sub EXCEPT ![s].pc = "connected"]
  /\ UNCHANGED <<streams, running, caps, captured, active_streams, sessions, worker>>
  /\ UNCHANGED <<source_dead, trackerVars, govVars, regVars, relayVars, apiVars>>

\* The client goes away; the server learns it at its next send.
ClientDisconnect(s) ==
  /\ sub[s].pc \notin {"start", "done"}
  /\ ~sub[s].gone
  /\ sub' = [sub EXCEPT ![s].gone = TRUE]
  /\ UNCHANGED <<streams, running, caps, captured, active_connections, active_streams,
                 sessions, worker>>
  /\ UNCHANGED <<source_dead, trackerVars, govVars, regVars, relayVars, apiVars>>

\* Lines 374-396: the camera is found, the limiter made, start_stream called.
Setup(s) ==
  /\ sub[s].pc = "connected"
  /\ \E opened \in BOOLEAN :
       LET r == start_stream(WsManager, CameraOf(s), s, opened)
       IN /\ streams' = r.M.streams
          /\ running' = r.M.running
          /\ caps' = r.M.caps
          /\ sub' = IF r.ok
                    THEN [sub EXCEPT ![s].pc = "send_status", ![s].cap = Some(Len(r.M.caps))]
                    ELSE [sub EXCEPT ![s].pc = "send_open_error"]
  /\ UNCHANGED <<captured, active_connections, active_streams, sessions, worker>>
  /\ UNCHANGED <<source_dead, trackerVars, govVars, regVars, relayVars, apiVars>>

\* Lines 488-500: a send outside the frame loop raised.  kind is the exception:
\* WebSocketDisconnect, or any other Exception.
HandlerExcept(s, kind, why) ==
  LET M == stop_stream(WsManager, CameraOf(s))
  IN /\ streams' = M.streams
     /\ running' = M.running
     /\ caps' = M.caps
     /\ active_connections' = IF kind = "WebSocketDisconnect"
                              THEN disconnect(active_connections, s, CameraOf(s))
                              ELSE active_connections
     /\ sub' = [sub EXCEPT ![s].pc = "done", ![s].exit = why]

\* Lines 397-401: await websocket.send_json({... "error": "Failed to open ..."}); break
SendOpenError(s) ==
  /\ sub[s].pc = "send_open_error"
  /\ IF sub[s].gone
     THEN \E kind \in {"WebSocketDisconnect", "Exception"} : HandlerExcept(s, kind, "open_failed")
     ELSE /\ sub' = [sub EXCEPT ![s].pc = "done", ![s].exit = "open_failed"]
          /\ UNCHANGED <<streams, running, caps, active_connections>>
  /\ UNCHANGED <<captured, active_streams, sessions, worker>>
  /\ UNCHANGED <<source_dead, trackerVars, govVars, regVars, relayVars, apiVars>>

\* Lines 403-409: await websocket.send_json({... "status": "connected" ...})
SendStatus(s) ==
  /\ sub[s].pc = "send_status"
  /\ IF sub[s].gone
     THEN \E kind \in {"WebSocketDisconnect", "Exception"} : HandlerExcept(s, kind, "status_failed")
     ELSE /\ sub' = [sub EXCEPT ![s].pc = "loop"]
          /\ UNCHANGED <<streams, running, caps, active_connections>>
  /\ UNCHANGED <<captured, active_streams, sessions, worker>>
  /\ UNCHANGED <<source_dead, trackerVars, govVars, regVars, relayVars, apiVars>>

\* Line 414: is_running(camera_id) is false: the while loop, and the handler, end.
LoopExit(s) ==
  /\ LoopHead(s)
  /\ ~running[CameraOf(s)]
  /\ sub' = [sub EXCEPT ![s].pc = "done", ![s].exit = "not_running"]
  /\ UNCHANGED <<streams, running, caps, captured, active_connections, active_streams,
                 sessions, worker>>
  /\ UNCHANGED <<source_dead, trackerVars, govVars, regVars, relayVars, apiVars>>

\* The camera stops yielding frames: from here on every cap.read() gives ret = False.
SourceStops(c) ==
  /\ ~source_dead[c]
  /\ source_dead' = [source_dead EXCEPT ![c] = TRUE]
  /\ UNCHANGED <<streams, running, caps, captured, active_connections, active_streams,
                 sessions, sub, worker>>
  /\ UNCHANGED <<trackerVars, govVars, regVars, relayVars, apiVars>>

\* Lines 414-427: n frames are read and dropped by the limiter (continue, without
\* an await), then get_frame gives None: await asyncio.sleep(0.01)
ReadNone(s) ==
  /\ LoopHead(s)
  /\ running[CameraOf(s)]
  /\ \E n \in 0..(MaxFrames - captured[CameraOf(s)]) :
       /\ (n > 0 => /\ streams[CameraOf(s)] # None
                    /\ ~source_dead[CameraOf(s)]
                    /\ sub[s].submitted # <<>>)
       /\ captured' = [captured EXCEPT ![CameraOf(s)] = @ + n]
  /\ sub' = [sub EXCEPT ![s].pc = "sleeping"]
  /\ UNCHANGED <<streams, running, caps, active_connections, active_streams, sessions,
                 worker>>
  /\ UNCHANGED <<source_dead, trackerVars, govVars, regVars, relayVars, apiVars>>

\* Lines 420-421: the sleep is over; continue, back to the loop's test
Wake(s) ==
  /\ sub[s].pc = "sleeping"
  /\ sub' = [sub EXCEPT ![s].pc = "loop"]
  /\ UNCHANGED <<streams, running, caps, captured, active_connections, active_streams,
                 sessions, worker>>
  /\ UNCHANGED <<source_dead, trackerVars, govVars, regVars, relayVars, apiVars>>

\* Lines 414-438: n frames are read and dropped, the next one is accepted and
\* handed to the pool: await loop.run_in_executor(thread_pool, process_frame_sync, ..)
ReadAndSubmit(s) ==
  /\ LoopHead(s)
  /\ running[CameraOf(s)]
  /\ streams[CameraOf(s)] # None
  /\ ~source_dead[CameraOf(s)]
  /\ \E n \in 0..(MaxFrames - captured[CameraOf(s)] - 1) :
       /\ (n > 0 => sub[s].submitted # <<>>)
       /\ captured' = [captured EXCEPT ![CameraOf(s)] = @ + n + 1]
       /\ sub' = [sub EXCEPT ![s].pc = "await_result",
                             ![s].submitted = Append(@, captured[CameraOf(s)] + n + 1)]
       /\ worker' = [worker EXCEPT ![s] = [wpc |-> "queued",
                                           frame |-> captured[CameraOf(s)] + n + 1,
                                           stream |-> None]]
  /\ UNCHANGED <<streams, running, caps, active_connections, active_streams, sessions>>
  /\ UNCHANGED <<source_dead, trackerVars, govVars, regVars, relayVars, apiVars>>

\* process_frame_sync starts on a free pool thread; line 160:
\* if not stream_manager.is_active(camera_id)
WorkerIsActive(s) ==
  /\ worker[s].wpc = "queued"
  /\ Busy < thread_pool_max_workers
  /\ worker' = [worker EXCEPT ![s].wpc = IF active_streams[CameraOf(s)] # None
                                         THEN "get_stream" ELSE "add_stream"]
  /\ UNCHANGED <<streams, running, caps, captured, active_connections, active_streams,
                 sessions, sub>>
  /\ UNCHANGED <<source_dead, trackerVars, govVars, regVars, relayVars, apiVars>>

\* stream_manager.add_stream, lines 50-52: if camera.id in self.active_streams: return True
WorkerAddStream(s) ==
  /\ worker[s].wpc = "add_stream"
  /\ worker' = [worker EXCEPT ![s].wpc = IF active_streams[CameraOf(s)] # None
                                         THEN "get_stream" ELSE "create"]
  /\ UNCHANGED <<streams, running, caps, captured, active_connections, active_streams,
                 sessions, sub>>
  /\ UNCHANGED <<source_dead, trackerVars, govVars, regVars, relayVars, apiVars>>

\* stream_manager.add_stream, lines 54-55:
\* stream = CameraStream(camera); self.active_streams[camera.id] = stream
WorkerCreate(s) ==
  /\ worker[s].wpc = "create"
  /\ sessions' = [sessions EXCEPT ![CameraOf(s)] = @ + 1]
  /\ active_streams' = [active_streams EXCEPT ![CameraOf(s)] = Some(sessions[CameraOf(s)] + 1)]
  /\ worker' = [worker EXCEPT ![s].wpc = "get_stream"]
  /\ UNCHANGED <<streams, running, caps, captured, active_connections, sub>>
  /\ UNCHANGED <<source_dead, trackerVars, govVars, regVars, relayVars, apiVars>>

\* Lines 165-174: stream = stream_manager.get_stream(camera_id)
WorkerGetStream(s) ==
  /\ worker[s].wpc = "get_stream"
  /\ worker' = [worker EXCEPT ![s].stream = active_streams[CameraOf(s)],
                              ![s].wpc = IF active_streams[CameraOf(s)] # None
                                         THEN "detect" ELSE "done"]
  /\ UNCHANGED <<streams, running, caps, captured, active_connections, active_streams,
                 sessions, sub>>
  /\ UNCHANGED <<source_dead, trackerVars, govVars, regVars, relayVars, apiVars>>

\* Lines 178-278: the models have run; stream.tracker.update(filtered_detections) is entered
WorkerTrackBegin(s) ==
  /\ worker[s].wpc = "detect"
  /\ worker' = [worker EXCEPT ![s].wpc = "in_update"]
  /\ UNCHANGED <<streams, running, caps, captured, active_connections, active_streams,
                 sessions, sub>>
  /\ UNCHANGED <<source_dead, trackerVars, govVars, regVars, relayVars, apiVars>>

\* Lines 278-352: tracker.update returns, the result message is built and returned
WorkerTrackEnd(s) ==
  /\ worker[s].wpc = "in_update"
  /\ worker' = [worker EXCEPT ![s].wpc = "done"]
  /\ UNCHANGED <<streams, running, caps, captured, active_connections, active_streams,
                 sessions, sub>>
  /\ UNCHANGED <<source_dead, trackerVars, govVars, regVars, relayVars, apiVars>>

\* Lines 433-458: the awaited result arrives; the frame is encoded (continue on
\* an encoding error), then the result is sent
Resume(s) ==
  /\ sub[s].pc = "await_result"
  /\ worker[s].wpc = "done"
  /\ \E encoded \in BOOLEAN :
       sub' = IF encoded THEN [sub EXCEPT ![s].pc = "sending"]
              ELSE [sub EXCEPT ![s].pc = "loop", ![s].abandoned = @ \cup {worker[s].frame}]
  /\ worker' = [worker EXCEPT ![s].wpc = "idle"]
  /\ UNCHANGED <<streams, running, caps, captured, active_connections, active_streams,
                 sessions>>
  /\ UNCHANGED <<source_dead, trackerVars, govVars, regVars, relayVars, apiVars>>

\* Lines 460-465: await websocket.send_json(result); a failure breaks the loop
SendResult(s) ==
  /\ sub[s].pc = "sending"
  /\ sub' = IF sub[s].gone
            THEN [sub EXCEPT ![s].pc = "done", ![s].exit = "send_failed"]
            ELSE [sub EXCEPT ![s].pc = "loop", ![s].delivered = Append(@, worker[s].frame)]
  /\ UNCHANGED <<streams, running, caps, captured, active_connections, active_streams,
                 sessions, worker>>
  /\ UNCHANGED <<source_dead, trackerVars, govVars, regVars, relayVars, apiVars>>

\* The steps the server takes for connection s: its coroutine on the event loop
\* and its process_frame_sync call on the pool.
ServerStep(s) ==
  \/ Connect(s) \/ Setup(s) \/ SendOpenError(s) \/ SendStatus(s)
  \/ LoopExit(s) \/ ReadNone(s) \/ Wake(s) \/ ReadAndSubmit(s)
  \/ WorkerIsActive(s) \/ WorkerAddStream(s) \/ WorkerCreate(s) \/ WorkerGetStream(s)
  \/ WorkerTrackBegin(s) \/ WorkerTrackEnd(s) \/ Resume(s) \/ SendResult(s)

WsNext ==
  \/ \E s \in Subs : ClientDisconnect(s) \/ ServerStep(s)
  \/ \E c \in Cameras : SourceStops(c)

(***************************************************************************)
(* The session registry (services/stream_manager.py) as its callers see it *)
(* one call at a time: StreamManager.add_stream, update_stream_features,   *)
(* remove_stream, and the tracker update that process_frame_sync makes on  *)
(* the session it got.  A feature map is a dict from feature names to      *)
(* bools; an ObjectTracker is its identity and the number of updates it    *)
(* has taken, which stands for its tracked objects and counters.           *)
(***************************************************************************)
RegistryIds == {"cam1", "cam2"}

FeatureKeys == {"tracking", "detection"}

\* The dicts camera.features can be.
FeatureMaps == UNION {[K -> BOOLEAN] : K \in SUBSET FeatureKeys}

\* features.get(key, default)
Get(features, key, default) == IF key \in DOMAIN features THEN features[key] ELSE default

\* ObjectTracker(): the ident-th tracker constructed, with nothing tracked
NewObjectTracker(ident) == [ident |-> ident, nupdates |-> 0]

\* CameraStream.__init__(camera); made counts the trackers constructed before
CameraStream(camera, made) ==
  IF Get(camera.features, "tracking", FALSE)
  THEN [stream |-> [camera |-> camera, tracker |-> Some(NewObjectTracker(made + 1))],
        made |-> made + 1]
  ELSE [stream |-> [camera |-> camera, tracker |-> None], made |-> made]

\* Mutant of update_features: the tracker stays when tracking is turned off.
update_features_keep(stream, features, made) ==
  LET st == [stream EXCEPT !.camera.features = features]
  IN IF Get(features, "tracking", FALSE) /\ st.tracker = None
     THEN [stream |-> [st EXCEPT !.tracker = Some(NewObjectTracker(made + 1))],
           made |-> made + 1]
     ELSE [stream |-> st, made |-> made]

\* Mutant of update_features: a tracker is constructed whenever tracking is on.
update_features_recreate(stream, features, made) ==
  LET st == [stream EXCEPT !.camera.features = features]
  IN IF Get(features, "tracking", FALSE)
     THEN [stream |-> [st EXCEPT !.tracker = Some(NewObjectTracker(made + 1))],
           made |-> made + 1]
     ELSE [stream |-> [st EXCEPT !.tracker = None], made |-> made]

\* CameraStream.update_features(features)
update_features(stream, features, made) ==
  LET st == [stream EXCEPT !.camera.features = features]
  IN IF Get(features, "tracking", FALSE) /\ st.tracker = None
     THEN [stream |-> [st EXCEPT !.tracker = Some(NewObjectTracker(made + 1))],
           made |-> made + 1]
     ELSE IF ~Get(features, "tracking", FALSE) /\ st.tracker # None
          THEN [stream |-> [st EXCEPT !.tracker = None], made |-> made]
          ELSE [stream |-> st, made |-> made]

\* The registry and the tracker count as one value.
Registry == [active_streams |-> registry, made |-> trackers_made]

\* Mutant of add_stream: a new CameraStream is stored whether or not the id has one.
add_stream_always(R, camera) ==
  LET c == CameraStream(camera, R.made)
  IN [active_streams |-> [R.active_streams EXCEPT ![camera.id] = Some(c.stream)],
      made |-> c.made]

\* StreamManager.add_stream(camera)
add_stream(R, camera) ==
  IF R.active_streams[camera.id] # None THEN R
  ELSE LET c == CameraStream(camera, R.made)
       IN [active_streams |-> [R.active_streams EXCEPT ![camera.id] = Some(c.stream)],
           made |-> c.made]

\* StreamManager.remove_stream(camera_id)
remove_stream(R, camera_id) ==
  IF R.active_streams[camera_id] # None
  THEN [R EXCEPT !.active_streams[camera_id] = None]
  ELSE R

\* StreamManager.get_stream(camera_id)
get_stream(R, camera_id) == R.active_streams[camera_id]

\* StreamManager.update_stream_features(camera_id, features)
update_stream_features(R, camera_id, features) ==
  LET stream == get_stream(R, camera_id)
  IN IF stream # None
     THEN LET u == update_features(stream[1], features, R.made)
          IN [active_streams |-> [R.active_streams EXCEPT ![camera_id] = Some(u.stream)],
              made |-> u.made]
     ELSE R

RegInit ==
  /\ registry = [id \in RegistryIds |-> None]
  /\ trackers_made = 0
  /\ reg_hist = [op |-> "none", id |-> "cam1", features |-> <<>>,
                 pre |-> [id \in RegistryIds |-> None], pre_made |-> 0, nops |-> 0]

\* One more call is recorded.
RegCall(op, id, features) ==
  reg_hist' = [op |-> op, id |-> id, features |-> features, pre |-> registry,
               pre_made |-> trackers_made, nops |-> reg_hist.nops + 1]

\* stream_manager.add_stream(camera)
AddStream ==
  /\ reg_hist.nops < MaxRegistryOps
  /\ \E id \in RegistryIds, features \in FeatureMaps :
       LET R == add_stream(Registry, [id |-> id, features |-> features])
       IN /\ registry' = R.active_streams
          /\ trackers_made' = R.made
          /\ RegCall("add_stream", id, features)
  /\ UNCHANGED <<trackerVars, govVars, wsVars, relayVars, apiVars>>

\* stream_manager.update_stream_features(camera_id, features)
UpdateStreamFeatures ==
  /\ reg_hist.nops < MaxRegistryOps
  /\ \E id \in RegistryIds, features \in FeatureMaps :
       LET R == update_stream_features(Registry, id, features)
       IN /\ registry' = R.active_streams
          /\ trackers_made' = R.made
          /\ RegCall("update_stream_features", id, features)
  /\ UNCHANGED <<trackerVars, govVars, wsVars, relayVars, apiVars>>

\* stream_manager.remove_stream(camera_id)
RemoveStream ==
  /\ reg_hist.nops < MaxRegistryOps
  /\ \E id \in RegistryIds :
       LET R == remove_stream(Registry, id)
       IN /\ registry' = R.active_streams
          /\ trackers_made' = R.made
          /\ RegCall("remove_stream", id, <<>>)
  /\ UNCHANGED <<trackerVars, govVars, wsVars, relayVars, apiVars>>

\* process_frame_sync, lines 165 and 265-278, called with a camera whose tracking
\* flag is on: the tracker of the session it got takes an update
SessionTrackerUpdate ==
  /\ reg_hist.nops < MaxRegistryOps
  /\ \E id \in RegistryIds :
       /\ get_stream(Registry, id) # None
       /\ get_stream(Registry, id)[1].tracker # None
       /\ registry' = [registry EXCEPT ![id][1].tracker[1].nupdates = @ + 1]
       /\ RegCall("tracker_update", id, <<>>)
  /\ UNCHANGED trackers_made
  /\ UNCHANGED <<trackerVars, govVars, wsVars, relayVars, apiVars>>

RegNext == AddStream \/ UpdateStreamFeatures \/ RemoveStream \/ SessionTrackerUpdate

(***************************************************************************)
(* The session of a camera as the program drives it: the subscriber loop   *)
(* of api/websocket.py fetches the camera once, at its start, and hands    *)
(* that object to process_frame_sync for every frame; the administrative   *)
(* route PATCH /{camera_id}/features (api/cameras.py) goes through         *)
(* CameraService.update_features.  One loop per camera; the registry is    *)
(* the one of the section above.                                           *)
(***************************************************************************)
\* The feature updates the administrative route is sent (exclude_unset).
FeatureUpdates == {[tracking |-> TRUE], [tracking |-> FALSE]}

\* current_features.update(feature_dict)
DictUpdate(current_features, feature_dict) ==
  [k \in DOMAIN current_features \cup DOMAIN feature_dict |->
     IF k \in DOMAIN feature_dict THEN feature_dict[k] ELSE current_features[k]]

\* CameraService.update_features(db, camera_id, features), committed: the row
\* afterwards, and the registry, which the service does not touch
ServiceUpdateFeatures(R, rows, camera_id, feature_dict) ==
  [rows |-> [rows EXCEPT ![camera_id] = DictUpdate(rows[camera_id], feature_dict)],
   R |-> R]

\* Lines 160-165 and 264-345 of process_frame_sync(camera, image) for the
\* camera object of the loop: the registry afterwards and whether the result
\* has results["tracking"]
FrameTracking(R, camera) ==
  LET R1 == IF R.active_streams[camera.id] = None THEN add_stream(R, camera) ELSE R
      stream == get_stream(R1, camera.id)
      tracks == Get(camera.features, "tracking", FALSE) /\ stream[1].tracker # None
  IN [R |-> IF tracks
            THEN [R1 EXCEPT !.active_streams[camera.id][1].tracker[1].nupdates = @ + 1]
            ELSE R1,
      block |-> tracks]

SessionInit ==
  /\ feature_rows = [id \in RegistryIds |->
                       IF id = "cam1" THEN [tracking |-> FALSE] ELSE [tracking |-> TRUE]]
  /\ loop_camera = [id \in RegistryIds |-> None]
  /\ session_hist = [switched |-> [id \in RegistryIds |-> "none"], block |-> FALSE]

\* camera_websocket, line 372: camera = await camera_service.get_camera(db, camera_id)
SubscriberStarts ==
  /\ reg_hist.nops < MaxRegistryOps
  /\ \E id \in RegistryIds :
       /\ loop_camera[id] = None
       /\ loop_camera' = [loop_camera EXCEPT
                            ![id] = Some([id |-> id, features |-> feature_rows[id]])]
       /\ session_hist' = [session_hist EXCEPT !.switched[id] = "none"]
       /\ RegCall("get_camera", id, feature_rows[id])
  /\ UNCHANGED <<registry, trackers_made, feature_rows>>
  /\ UNCHANGED <<trackerVars, govVars, wsVars, relayVars, calibVars, adminVars, frameVars,
                 digestVars>>

\* The handler of the loop ends; nothing in it calls stream_manager.remove_stream
SubscriberEnds ==
  /\ reg_hist.nops < MaxRegistryOps
  /\ \E id \in RegistryIds :
       /\ loop_camera[id] # None
       /\ loop_camera' = [loop_camera EXCEPT ![id] = None]
       /\ session_hist' = [session_hist EXCEPT !.switched[id] = "none"]
       /\ RegCall("handler_ends", id, <<>>)
  /\ UNCHANGED <<registry, trackers_made, feature_rows>>
  /\ UNCHANGED <<trackerVars, govVars, wsVars, relayVars, calibVars, adminVars, frameVars,
                 digestVars>>

\* PATCH /{camera_id}/features, answered 200.  switched records a change of the
\* tracking flag made while the camera has a session and a running loop.
AdminUpdateFeatures ==
  /\ reg_hist.nops < MaxRegistryOps
  /\ \E id \in RegistryIds, feature_dict \in FeatureUpdates :
       LET u == ServiceUpdateFeatures(Registry, feature_rows, id, feature_dict)
           was == Get(feature_rows[id], "tracking", FALSE)
           is == Get(u.rows[id], "tracking", FALSE)
       IN /\ feature_rows' = u.rows
          /\ registry' = u.R.active_streams
          /\ trackers_made' = u.R.made
          /\ session_hist' =
               IF was # is /\ registry[id] # None /\ loop_camera[id] # None
               THEN [session_hist EXCEPT !.switched[id] = IF is THEN "on" ELSE "off"]
               ELSE session_hist
          /\ RegCall("update_features", id, feature_dict)
  /\ UNCHANGED loop_camera
  /\ UNCHANGED <<trackerVars, govVars, wsVars, relayVars, calibVars, adminVars, frameVars,
                 digestVars>>

\* The loop of a camera has a frame processed: process_frame_sync(camera, frame)
LoopProcessesFrame ==
  /\ reg_hist.nops < MaxRegistryOps
  /\ \E id \in RegistryIds :
       /\ loop_camera[id] # None
       /\ LET f == FrameTracking(Registry, loop_camera[id][1])
          IN /\ registry' = f.R.active_streams
             /\ trackers_made' = f.R.made
             /\ session_hist' = [session_hist EXCEPT !.block = f.block]
       /\ RegCall("process_frame", id, loop_camera[id][1].features)
  /\ UNCHANGED <<feature_rows, loop_camera>>
  /\ UNCHANGED <<trackerVars, govVars, wsVars, relayVars, calibVars, adminVars, frameVars,
                 digestVars>>

SessionNext == SubscriberStarts \/ SubscriberEnds \/ AdminUpdateFeatures \/ LoopProcessesFrame

(***************************************************************************)
(* The HTTP relay (api/http_camera_proxy.py): proxy_camera_stream and its  *)
(* stream_generator.  A URL is a sequence of tokens ("http", "://", "admin",*)
(* ":", "secret", "@", ...); urlparse is modelled on the tokens the way     *)
(* urllib splits the string: the netloc ends at the first "/" or "?", the   *)
(* user information ends at the last "@" of the netloc.  The generator runs *)
(* on the event loop: a step of the model is the code between two awaits.   *)
(***************************************************************************)
PathTokens == {"/video"}

CredentialTokens == {"admin", "secret", "p%40ss", "p@ss"}

\* The user information a configured URL can carry.
UserInfos == {<<>>, <<"admin">>, <<"admin", ":">>, <<"admin", ":", "secret">>,
              <<"admin", ":", "p%40ss">>}

\* The configured URLs (camera.rtsp_url), by their parts.
UrlParts == [userinfo : UserInfos, host : {"Cam"}, port : {<<>>, <<"8080">>},
             path : PathTokens, query : {<<>>, <<"ch=1">>}]

\* The URL string of the parts.
FormatUrl(u) ==
  <<"http", "://">>
    \o (IF u.userinfo = <<>> THEN <<>> ELSE u.userinfo \o <<"@">>)
    \o <<u.host>>
    \o (IF u.port = <<>> THEN <<>> ELSE <<":">> \o u.port)
    \o <<u.path>>
    \o (IF u.query = <<>> THEN <<>> ELSE <<"?">> \o u.query)

\* The positions of the tokens of a sequence that are in S.
Positions_of(seq, S) == {i \in 1..Len(seq) : seq[i] \in S}

MinOf(S) == CHOOSE x \in S : \A y \in S : x <= y

MaxOf(S) == CHOOSE x \in S : \A y \in S : x >= y

\* str.lower() on the host names of the model
Lower(tok) == IF tok = "Cam" THEN "cam" ELSE tok

\* urllib.parse.unquote on the tokens of the model
unquote(tok) == IF tok = "p%40ss" THEN "p@ss" ELSE tok

\* urllib.parse.urlparse(url): scheme, netloc, path, query, and the properties
\* username, password, hostname, port of the result ("" where Python gives None)
urlparse(url) ==
  LET ends == {i \in Positions_of(url, PathTokens \cup {"?"}) : i >= 3}
      netloc_end == IF ends = {} THEN Len(url) + 1 ELSE MinOf(ends)
      netloc == SubSeq(url, 3, netloc_end - 1)
      ats == Positions_of(netloc, {"@"})
      userinfo == IF ats = {} THEN <<>> ELSE SubSeq(netloc, 1, MaxOf(ats) - 1)
      hostinfo == IF ats = {} THEN netloc ELSE SubSeq(netloc, MaxOf(ats) + 1, Len(netloc))
      colons == Positions_of(userinfo, {":"})
      qs == Positions_of(url, {"?"})
  IN [scheme |-> url[1],
      netloc |-> netloc,
      path |-> IF netloc_end <= Len(url) /\ url[netloc_end] \in PathTokens
               THEN url[netloc_end] ELSE "",
      query |-> IF qs # {} /\ MinOf(qs) < Len(url) THEN url[MinOf(qs) + 1] ELSE "",
      username |-> IF userinfo = <<>> \/ userinfo[1] = ":" THEN "" ELSE userinfo[1],
      password |-> IF colons # {} /\ MinOf(colons) < Len(userinfo)
                   THEN userinfo[MinOf(colons) + 1] ELSE "",
      hostname |-> IF hostinfo = <<>> THEN "" ELSE Lower(hostinfo[1]),
      port |-> IF Len(hostinfo) >= 3 /\ hostinfo[2] = ":" THEN hostinfo[3] ELSE ""]

\* Mutant of StreamUrl: the URL is built from the netloc instead of the hostname.
stream_url_netloc(parsed) ==
  <<parsed.scheme, "://">> \o parsed.netloc
    \o (IF parsed.path = "" THEN <<>> ELSE <<parsed.path>>)
    \o (IF parsed.query = "" THEN <<>> ELSE <<"?", parsed.query>>)

\* Lines 118-124: stream_url, built from scheme, hostname, port, path and query
StreamUrl(parsed) ==
  <<parsed.scheme, "://", parsed.hostname>>
    \o (IF parsed.port = "" THEN <<>> ELSE <<":", parsed.port>>)
    \o (IF parsed.path = "" THEN <<>> ELSE <<parsed.path>>)
    \o (IF parsed.query = "" THEN <<>> ELSE <<"?", parsed.query>>)

\* Lines 126-128: uri
Uri(parsed) ==
  (IF parsed.path = "" THEN <<>> ELSE <<parsed.path>>)
    \o (IF parsed.query = "" THEN <<>> ELSE <<"?", parsed.query>>)

\* What the probe can come back with: a status and the authentication schemes
\* named in its WWW-Authenticate header.
ProbeAnswers ==
  {[status |-> 200, www |-> {}], [status |-> 403, www |-> {}]}
    \cup {[status |-> 401, www |-> w] : w \in SUBSET {"Digest", "Basic"}}

\* The statuses of the second request.
ResponseStatuses == {200, 401, 503}

\* Lines 147-158: auth_type from the probe
AuthType(probe) ==
  IF probe.status = 401
  THEN IF "Digest" \in probe.www THEN "digest"
       ELSE IF "Basic" \in probe.www THEN "basic" ELSE "none"
  ELSE "none"

\* Lines 160-170: the Authorization header of the second request (<<>>: none)
Authorization(auth_type, username, password, uri) ==
  IF auth_type = "digest" /\ username # "" /\ password # ""
  THEN Some([scheme |-> "Digest", username |-> username, uri |-> uri])
  ELSE IF username # "" /\ password # ""
       THEN Some([scheme |-> "Basic", b64 |-> <<username, ":", password>>])
       ELSE None

\* The chunks response.content.iter_any() can give; "" is the empty chunk.
Chunks == {"", "a", "b"}

\* Mutant of is_disconnected: the relay never learns that the client is gone.
is_disconnected_never(c) == FALSE

\* await request.is_disconnected()
is_disconnected(c) == c.gone

\* Mutant of Passes: empty chunks are passed on as well.
PassesAll(chunk) == TRUE

\* Line 192: if chunk
Passes(chunk) == chunk # ""

\* The non-empty chunks of a sequence, in order.
RECURSIVE NonEmpty(_)
NonEmpty(seq) ==
  IF seq = <<>> THEN <<>>
  ELSE IF Head(seq) # "" THEN <<Head(seq)>> \o NonEmpty(Tail(seq)) ELSE NonEmpty(Tail(seq))

RelayInit ==
  /\ relay = [pc |-> "start", exit |-> "", config |-> <<>>, stream_url |-> <<>>, uri |-> <<>>,
              username |-> "", password |-> "", probe |-> None, status |-> 0, held |-> <<>>]
  /\ upstream = [requests |-> <<>>, open |-> FALSE, released |-> 0, body |-> <<>>]
  /\ client = [response |-> 0, delivered |-> <<>>, gone |-> FALSE,
               read_after_gone |-> 0, delivered_after_gone |-> 0, checks_after_gone |-> 0]

\* The generator leaves its "async with" blocks: the open response is released.
Leave(why) ==
  /\ relay' = [relay EXCEPT !.pc = "done", !.exit = why, !.held = <<>>]
  /\ upstream' = [upstream EXCEPT !.open = FALSE,
                                  !.released = IF upstream.open THEN @ + 1 ELSE @]

\* Lines 96-103: the camera is not found (404) or has no stream URL (400)
RelayRefuse ==
  /\ relay.pc = "start"
  /\ \E status \in {404, 400} :
       /\ relay' = [relay EXCEPT !.pc = "done", !.exit = "refused"]
       /\ client' = [client EXCEPT !.response = status]
  /\ UNCHANGED upstream
  /\ UNCHANGED <<trackerVars, govVars, wsVars, regVars, apiVars>>

\* Lines 105-130 and 209-220: the URL is parsed, the outbound URL built and the
\* StreamingResponse returned: the subscriber gets status 200 and the headers
RelayStart ==
  /\ relay.pc = "start"
  /\ \E u \in UrlParts :
       LET parsed == urlparse(FormatUrl(u))
       IN relay' = [relay EXCEPT !.pc = "probe", !.config = FormatUrl(u),
                                 !.stream_url = StreamUrl(parsed), !.uri = Uri(parsed),
                                 !.username = unquote(parsed.username),
                                 !.password = unquote(parsed.password)]
  /\ client' = [client EXCEPT !.response = 200]
  /\ UNCHANGED upstream
  /\ UNCHANGED <<trackerVars, govVars, wsVars, regVars, apiVars>>

\* The client goes away; request.is_disconnected() is true from now on
RelayClientGone ==
  /\ relay.pc \notin {"start", "done"}
  /\ ~client.gone
  /\ client' = [client EXCEPT !.gone = TRUE]
  /\ UNCHANGED <<relay, upstream>>
  /\ UNCHANGED <<trackerVars, govVars, wsVars, regVars, apiVars>>

\* Line 150, the upstream does not answer: the exception is caught at line 206
ProbeUnreachable ==
  /\ relay.pc = "probe"
  /\ upstream' = [upstream EXCEPT !.requests = Append(@, [url |-> relay.stream_url,
                                                          authorization |-> None])]
  /\ relay' = [relay EXCEPT !.pc = "done", !.exit = "unreachable"]
  /\ UNCHANGED client
  /\ UNCHANGED <<trackerVars, govVars, wsVars, regVars, apiVars>>

\* Lines 141-158: the probe, sent without an Authorization header, is answered
Probe ==
  /\ relay.pc = "probe"
  /\ \E answer \in ProbeAnswers :
       relay' = [relay EXCEPT !.pc = "request", !.probe = Some(answer)]
  /\ upstream' = [upstream EXCEPT !.requests = Append(@, [url |-> relay.stream_url,
                                                          authorization |-> None])]
  /\ UNCHANGED client
  /\ UNCHANGED <<trackerVars, govVars, wsVars, regVars, apiVars>>

\* The request of lines 160-173 as the upstream receives it.
SecondRequest ==
  [url |-> relay.stream_url,
   authorization |-> Authorization(AuthType(relay.probe[1]), relay.username,
                                   relay.password, relay.uri)]

\* Lines 160-173, the upstream does not answer: the exception is caught at line 206
RequestUnreachable ==
  /\ relay.pc = "request"
  /\ upstream' = [upstream EXCEPT !.requests = Append(@, SecondRequest)]
  /\ relay' = [relay EXCEPT !.pc = "done", !.exit = "unreachable"]
  /\ UNCHANGED client
  /\ UNCHANGED <<trackerVars, govVars, wsVars, regVars, apiVars>>

\* Lines 160-180: the second request is answered; any status but 200 ends the
\* generator (return at line 178)
Request ==
  /\ relay.pc = "request"
  /\ \E status \in ResponseStatuses :
       IF status = 200
       THEN /\ relay' = [relay EXCEPT !.pc = "read", !.status = status]
            /\ upstream' = [upstream EXCEPT !.requests = Append(@, SecondRequest),
                                            !.open = TRUE]
       ELSE /\ relay' = [relay EXCEPT !.pc = "done", !.exit = "bad_status", !.status = status]
            /\ upstream' = [upstream EXCEPT !.requests = Append(@, SecondRequest),
                                            !.released = @ + 1]
  /\ UNCHANGED client
  /\ UNCHANGED <<trackerVars, govVars, wsVars, regVars, apiVars>>

\* Line 186: iter_any() gives the next chunk of the body
ReadChunk ==
  /\ relay.pc = "read"
  /\ Len(upstream.body) < MaxChunks
  /\ \E chunk \in Chunks :
       /\ relay' = [relay EXCEPT !.pc = "check", !.held = <<chunk>>]
       /\ upstream' = [upstream EXCEPT !.body = Append(@, chunk)]
  /\ client' = [client EXCEPT !.read_after_gone = IF client.gone THEN @ + 1 ELSE @]
  /\ UNCHANGED <<trackerVars, govVars, wsVars, regVars, apiVars>>

\* Line 186: the body ends (line 202), or the read fails or times out (line 206)
EndOfBody ==
  /\ relay.pc = "read"
  /\ \E why \in {"ended", "read_error"} : Leave(why)
  /\ UNCHANGED client
  /\ UNCHANGED <<trackerVars, govVars, wsVars, regVars, apiVars>>

\* Lines 188-200: the disconnect check, then the chunk is yielded if it is not
\* empty; there is no await between the check's answer and the yield
CheckAndYield ==
  /\ relay.pc = "check"
  /\ IF is_disconnected(client)
     THEN /\ Leave("disconnected")
          /\ client' = [client EXCEPT !.checks_after_gone = IF client.gone THEN @ + 1 ELSE @]
     ELSE IF Passes(relay.held[1])
          THEN /\ relay' = [relay EXCEPT !.pc = "yielded"]
               /\ client' = [client EXCEPT
                    !.delivered = Append(@, relay.held[1]),
                    !.delivered_after_gone = IF client.gone THEN @ + 1 ELSE @,
                    !.checks_after_gone = IF client.gone THEN @ + 1 ELSE @]
               /\ UNCHANGED upstream
          ELSE /\ relay' = [relay EXCEPT !.pc = "read"]
               /\ client' = [client EXCEPT
                    !.checks_after_gone = IF client.gone THEN @ + 1 ELSE @]
               /\ UNCHANGED upstream
  /\ UNCHANGED <<trackerVars, govVars, wsVars, regVars, apiVars>>

\* The response has sent the chunk and asks the generator for the next one
RelayResume ==
  /\ relay.pc = "yielded"
  /\ relay' = [relay EXCEPT !.pc = "read", !.held = <<>>]
  /\ UNCHANGED <<upstream, client>>
  /\ UNCHANGED <<trackerVars, govVars, wsVars, regVars, apiVars>>

\* Line 204: the server cancels the response task of a client that is gone, or
\* closes the suspended generator; the "async with" blocks are left
RelayCancelled ==
  /\ client.gone
  /\ relay.pc \in {"probe", "request", "read", "yielded"}
  /\ Leave("cancelled")
  /\ UNCHANGED client
  /\ UNCHANGED <<trackerVars, govVars, wsVars, regVars, apiVars>>

RelayNext ==
  \/ RelayRefuse \/ RelayStart \/ RelayClientGone \/ ProbeUnreachable \/ Probe
  \/ RequestUnreachable \/ Request \/ ReadChunk \/ EndOfBody \/ CheckAndYield
  \/ RelayResume \/ RelayCancelled

(***************************************************************************)
(* Calibration: CameraCalibrator.calibrate_reference_object, and the three *)
(* operations that write a camera's calibration columns: create_camera and *)
(* calibrate_camera (services/camera_service.py) and clear_calibration     *)
(* (api/cameras.py).  The table holds one camera.  Coordinates are         *)
(* integers.  A distance, and a ratio of distances, is the square root of  *)
(* a fraction: it is kept exactly, as that fraction <<n, d>> in lowest     *)
(* terms, so 50 is <<2500, 1>> and 0 is <<0, 1>>.                          *)
(***************************************************************************)
RECURSIVE GCD(_, _)
GCD(a, b) == IF b = 0 THEN a ELSE GCD(b, a % b)

\* The square root of n / d (n >= 0, d > 0)
Root(n, d) == LET g == GCD(n, d) IN <<n \div g, d \div g>>

\* The float k (a natural number)
Float(k) == Root(k * k, 1)

\* np.sqrt(dx ** 2 + dy ** 2)
Hypot(dx, dy) == Root(dx * dx + dy * dy, 1)

\* a / b on floats (b is not 0)
Div(a, b) == Root(a[1] * b[2], a[2] * b[1])

\* a * k on floats
Times(a, k) == Root(a[1] * k * k, a[2])

\* a < k on floats
Less(a, k) == a[1] < k * k * a[2]

\* bool(x) of an Optional[float]: None and 0.0 are false
Truthy(x) == x # None /\ x[1] # 0

\* CalibrationPoint(...).dict()
Pt(px, py, rx, ry) == [pixel_x |-> px, pixel_y |-> py, real_x |-> rx, real_y |-> ry]

\* The calibration points a request may carry
CalibrationPoints == {Pt(0, 0, 0, 0), Pt(8, 0, 0, 1), Pt(30, 40, 0, 1), Pt(30, 40, 3, 4)}

\* A dict that is no CalibrationPoint: calibrate_reference_object takes any list of dicts
BadPoint == [pixel_x |-> 0, pixel_y |-> 0]

\* The lists of points of a request: none, one or two points, or two and a third
PointLists ==
  UNION {[1..n -> CalibrationPoints] : n \in {0, 1, 2}}
    \cup {Append(ps, p) : ps \in [1..2 -> CalibrationPoints],
                          p \in {Pt(0, 0, 0, 0), Pt(30, 40, 3, 4)}}

\* The lists of dicts a direct call may pass
DictLists ==
  UNION {[1..n -> {Pt(0, 0, 0, 0), Pt(8, 0, 0, 1), BadPoint}] : n \in {0, 1, 2, 3}}

CalibrationModes == {"reference_object", "perspective_transform"}

\* The keys p1[...] and p2[...] read at lines 25-34 exist
HasKeys(p) == {"pixel_x", "pixel_y", "real_x", "real_y"} \subseteq DOMAIN p

\* Mutant of calibrate_reference_object: a ratio of exactly 10 is taken for centimetres.
calibrate_reference_object_le(points) ==
  IF Len(points) < 2 THEN None
  ELSE LET p1 == points[1]
           p2 == points[2]
       IN IF ~(HasKeys(p1) /\ HasKeys(p2)) THEN None
          ELSE LET pixel_dist == Hypot(p2.pixel_x - p1.pixel_x, p2.pixel_y - p1.pixel_y)
                   real_dist == Hypot(p2.real_x - p1.real_x, p2.real_y - p1.real_y)
               IN IF pixel_dist = Float(0) \/ real_dist = Float(0) THEN None
                  ELSE LET pixels_per_unit == Div(pixel_dist, real_dist)
                       IN IF ~Less(pixels_per_unit, 10) /\ pixels_per_unit # Float(10)
                          THEN pixels_per_unit
                          ELSE Times(pixels_per_unit, 100)

\* CameraCalibrator.calibrate_reference_object(points): pixels per meter, or None.
\* A missing key raises KeyError inside the try: the except returns None.
calibrate_reference_object(points) ==
  IF Len(points) < 2 THEN None
  ELSE LET p1 == points[1]
           p2 == points[2]
       IN IF ~(HasKeys(p1) /\ HasKeys(p2)) THEN None
          ELSE LET pixel_dist == Hypot(p2.pixel_x - p1.pixel_x, p2.pixel_y - p1.pixel_y)
                   real_dist == Hypot(p2.real_x - p1.real_x, p2.real_y - p1.real_y)
               IN IF pixel_dist = Float(0) \/ real_dist = Float(0) THEN None
                  ELSE LET pixels_per_unit == Div(pixel_dist, real_dist)
                       IN IF Less(pixels_per_unit, 10)
                          THEN Times(pixels_per_unit, 100)
                          ELSE pixels_per_unit

\* The calibration columns of a Camera row as the Column defaults leave them
\* (database/models.py 21-24)
UncalibratedRow ==
  [is_calibrated |-> FALSE, pixels_per_meter |-> None, calibration_mode |-> None,
   calibration_points |-> None]

\* Lines 312-315 and 102-105: the four columns set from a successful calibration
CalibratedRow(pixels_per_meter, mode, points) ==
  [is_calibrated |-> TRUE, pixels_per_meter |-> pixels_per_meter,
   calibration_mode |-> Some(mode), calibration_points |-> Some(points)]

\* Mutant of create_camera: the ratio is stored without testing it.
create_camera_unchecked(calibration) ==
  IF calibration # None /\ Len(calibration[1].points) >= 2
  THEN LET pixels_per_meter ==
             IF calibration[1].mode = "reference_object"
             THEN calibrate_reference_object(calibration[1].points)
             ELSE None
       IN CalibratedRow(pixels_per_meter, calibration[1].mode, calibration[1].points)
  ELSE UncalibratedRow

\* CameraService.create_camera, lines 77-106: the Camera object before db.add.
\* calibration is None or Some([mode, points]).
create_camera(calibration) ==
  IF calibration # None /\ Len(calibration[1].points) >= 2
  THEN LET pixels_per_meter ==
             IF calibration[1].mode = "reference_object"
             THEN calibrate_reference_object(calibration[1].points)
             ELSE None
       IN IF Truthy(pixels_per_meter)
          THEN CalibratedRow(pixels_per_meter, calibration[1].mode, calibration[1].points)
          ELSE UncalibratedRow
  ELSE UncalibratedRow

\* CameraService.calibrate_camera, lines 304-324, for a camera that exists: the
\* camera object afterwards, and whether the camera (not None) is returned.
calibrate_camera(camera, calibration_data) ==
  LET pixels_per_meter ==
        IF calibration_data.mode = "reference_object"
        THEN calibrate_reference_object(calibration_data.points)
        ELSE None
  IN IF Truthy(pixels_per_meter)
     THEN [camera |-> CalibratedRow(pixels_per_meter, calibration_data.mode,
                                    calibration_data.points),
           ok |-> TRUE]
     ELSE [camera |-> camera, ok |-> FALSE]

\* Mutant of clear_calibration: the ratio is left in place.
clear_calibration_keeps_ratio(camera) ==
  [camera EXCEPT !.is_calibrated = FALSE, !.calibration_mode = None,
                 !.calibration_points = None]

\* clear_calibration of api/cameras.py, lines 332-335
clear_calibration(camera) ==
  [camera EXCEPT !.is_calibrated = FALSE, !.pixels_per_meter = None,
                 !.calibration_mode = None, !.calibration_points = None]

CalibInit ==
  /\ camera_row = None
  /\ calib_hist = [op |-> "none", calibration |-> None, pre |-> None, committed |-> FALSE,
                   status |-> 0, result |-> None]

\* calibrator.calibrate_reference_object(points), called on any list of dicts.
\* result is Some(the value returned).
CalibrateReferenceObject ==
  \E points \in DictLists :
    /\ calib_hist' = [op |-> "calibrate_reference_object",
                      calibration |-> Some([mode |-> "reference_object", points |-> points]),
                      pre |-> camera_row, committed |-> FALSE, status |-> 0,
                      result |-> Some(calibrate_reference_object(points))]
    /\ UNCHANGED camera_row
    /\ UNCHANGED <<coreVars, sessionVars, adminVars, frameVars, digestVars>>

\* POST /cameras/: create_camera, then db.add, await db.commit().  A commit that
\* raises leaves no row and the request ends with status 500.  result is
\* Some(the value calibrate_reference_object returned) if it was called.
CreateCamera ==
  /\ camera_row = None
  /\ \E calibration \in {None} \cup {Some([mode |-> m, points |-> ps]) :
                                      m \in CalibrationModes, ps \in PointLists},
        committed \in BOOLEAN :
       /\ camera_row' = IF committed THEN Some(create_camera(calibration)) ELSE None
       /\ calib_hist' = [op |-> "create", calibration |-> calibration, pre |-> camera_row,
                         committed |-> committed,
                         status |-> IF committed THEN 201 ELSE 500,
                         result |-> IF /\ calibration # None
                                       /\ Len(calibration[1].points) >= 2
                                       /\ calibration[1].mode = "reference_object"
                                    THEN Some(calibrate_reference_object(calibration[1].points))
                                    ELSE None]
  /\ UNCHANGED <<coreVars, sessionVars, adminVars, frameVars, digestVars>>

\* POST /cameras/{id}/calibrate: calibrate_camera commits a successful
\* calibration; it returns None for no camera and for a failed calibration, which
\* the route answers with status 400 and get_db rolls back.
CalibrateCamera ==
  \E m \in CalibrationModes, ps \in PointLists, committed \in BOOLEAN :
    LET calibration_data == [mode |-> m, points |-> ps]
        r == calibrate_camera(camera_row[1], calibration_data)
    IN /\ camera_row' = IF camera_row # None /\ r.ok /\ committed
                        THEN Some(r.camera) ELSE camera_row
       /\ calib_hist' = [op |-> "calibrate", calibration |-> Some(calibration_data),
                         pre |-> camera_row,
                         committed |-> camera_row # None /\ r.ok /\ committed,
                         status |-> IF camera_row = None THEN 400
                                    ELSE IF ~r.ok THEN 400
                                    ELSE IF committed THEN 200 ELSE 500,
                         result |-> IF camera_row # None /\ m = "reference_object"
                                    THEN Some(calibrate_reference_object(ps)) ELSE None]
       /\ UNCHANGED <<coreVars, sessionVars, adminVars, frameVars, digestVars>>

\* DELETE /cameras/{id}/calibration: the four columns are assigned, then one
\* await db.commit() writes them; a commit that raises is rolled back by get_db
ClearCalibration ==
  \E committed \in BOOLEAN :
    /\ camera_row' = IF camera_row # None /\ committed
                     THEN Some(clear_calibration(camera_row[1])) ELSE camera_row
    /\ calib_hist' = [op |-> "clear", calibration |-> None, pre |-> camera_row,
                      committed |-> camera_row # None /\ committed,
                      status |-> IF camera_row = None THEN 404
                                 ELSE IF committed THEN 200 ELSE 500,
                      result |-> None]
    /\ UNCHANGED <<coreVars, sessionVars, adminVars, frameVars, digestVars>>

CalibNext == CalibrateReferenceObject \/ CreateCamera \/ CalibrateCamera \/ ClearCalibration

(***************************************************************************)
(* The administrative PATCH routes of api/cameras.py: update_camera,       *)
(* update_camera_features and update_detection_classes, which share one    *)
(* retry loop.  str(e).lower() is the sequence of its words, and           *)
(* "'locked' in error_msg" is the presence of the word.  An error carries  *)
(* what it is (contention says that the database was locked by another     *)
(* writer) next to its text; the code sees the text alone.  Delays are in  *)
(* milliseconds.                                                           *)
(***************************************************************************)
max_retries == 3

AdminRoutes == {"update_camera", "update_camera_features", "update_detection_classes"}

\* The camera_id of the path, as the words str() shows; the first is in the table
AdminCameraIds == {<<"cam1">>, <<"cam9">>, <<"busy", "dock">>}

CameraExists(camera_id) == camera_id = <<"cam1">>

\* What "await db.commit()" of the service raises when it fails: sqlite3's
\* "database is locked" for a concurrent writer, and errors of the statement
\* itself, whose text carries the statement and its parameters (the values sent)
StorageErrors ==
  {[kind |-> "OperationalError", contention |-> TRUE,
    msg |-> <<"database", "is", "locked">>],
   [kind |-> "IntegrityError", contention |-> FALSE,
    msg |-> <<"not", "null", "constraint", "failed", "cameras", "name">>],
   [kind |-> "IntegrityError", contention |-> FALSE,
    msg |-> <<"not", "null", "constraint", "failed", "cameras", "name",
              "parameters", "busy", "street">>]}

\* HTTPException(404, detail="Camera {camera_id} not found") raised inside the
\* try (lines 74-78): str(e) is "404: Camera .. not found", or empty where the
\* installed Starlette defines no __str__ for it
NotFoundErrors(camera_id) ==
  {[kind |-> "HTTPException", contention |-> FALSE,
    msg |-> <<"404", "camera">> \o camera_id \o <<"not", "found">>],
   [kind |-> "HTTPException", contention |-> FALSE, msg |-> <<>>]}

\* word in error_msg
In(word, error_msg) == \E i \in 1..Len(error_msg) : error_msg[i] = word

\* Lines 83-86: 'locked' in error_msg or 'busy' in error_msg
IsLockError(e) == In("locked", e.msg) \/ In("busy", e.msg)

IdleAdmin ==
  [pc |-> "idle", route |-> "", camera_id |-> <<>>, attempt |-> 0, retry_delay |-> 0,
   sleeps |-> <<>>, errors |-> <<>>, status |-> 0]

AdminInit == admin = IdleAdmin

\* A PATCH request arrives: max_retries = 3, retry_delay = 0.5, attempt = 0
AdminRequest ==
  /\ admin.pc \in {"idle", "done"}
  /\ \E route \in AdminRoutes, camera_id \in AdminCameraIds :
       admin' = [IdleAdmin EXCEPT !.pc = "try", !.route = route, !.camera_id = camera_id,
                                  !.retry_delay = 500]
  /\ UNCHANGED <<coreVars, sessionVars, calibVars, frameVars, digestVars>>

\* The except clause, lines 82-104, for the exception e of this attempt
AdminExcept(e) ==
  admin' =
    IF IsLockError(e)
    THEN IF admin.attempt < max_retries - 1
         THEN [admin EXCEPT !.pc = "sleep", !.errors = Append(@, e)]
         ELSE [admin EXCEPT !.pc = "done", !.errors = Append(@, e), !.status = 503]
    ELSE [admin EXCEPT !.pc = "done", !.errors = Append(@, e), !.status = 500]

\* One pass of "for attempt in range(max_retries)": the service call returns the
\* camera, returns None (the 404 is raised, and caught), or raises
AdminAttempt ==
  /\ admin.pc = "try"
  /\ admin.attempt < max_retries
  /\ \/ /\ CameraExists(admin.camera_id)
        /\ admin' = [admin EXCEPT !.pc = "done", !.status = 200]
     \/ /\ CameraExists(admin.camera_id)
        /\ \E e \in StorageErrors : AdminExcept(e)
     \/ /\ ~CameraExists(admin.camera_id)
        /\ \E e \in NotFoundErrors(admin.camera_id) : AdminExcept(e)
  /\ UNCHANGED <<coreVars, sessionVars, calibVars, frameVars, digestVars>>

\* Lines 89-91: await asyncio.sleep(retry_delay); retry_delay *= 2; continue
AdminSleep ==
  /\ admin.pc = "sleep"
  /\ admin' = [admin EXCEPT !.pc = "try", !.sleeps = Append(@, admin.retry_delay),
                            !.retry_delay = @ * 2, !.attempt = @ + 1]
  /\ UNCHANGED <<coreVars, sessionVars, calibVars, frameVars, digestVars>>

AdminNext == AdminRequest \/ AdminAttempt \/ AdminSleep

(***************************************************************************)
(* process_frame_sync (api/websocket.py) for one frame: the models of the  *)
(* camera are run, their detections go to the session's tracker, and the   *)
(* speed of each tracked object is computed by the module's                *)
(* speed_calculator.  The registry gives the session of the camera, with   *)
(* a tracker or without one, or no session.  The models are what the       *)
(* installation holds: two that work, one whose file is missing, one whose *)
(* predict raises, and a name that settings.AVAILABLE_MODELS does not      *)
(* have.  The tracker gives one object for each detection it takes, all at *)
(* one centroid and moving with the velocity the call is given.            *)
(***************************************************************************)
AVAILABLE_MODELS ==
  {"general_detection", "ppe_detection", "fire_detection", "weapon_detection"}

ModelNames == AVAILABLE_MODELS \cup {"ghost_detection"}

\* model_path.exists() of load_model
ModelFileExists(model_name) == model_name # "fire_detection"

\* model.predict(...) raises
PredictRaises(model_name) == model_name = "weapon_detection"

\* The boxes model.predict finds in the frame, by their labels
Predict(model_name) ==
  IF model_name = "general_detection" THEN <<[label |-> "car"], [label |-> "person"]>>
  ELSE IF model_name = "ppe_detection" THEN <<[label |-> "Hardhat"]>>
  ELSE <<>>

ModelResult(detections, model_name, error) ==
  [detections |-> detections, count |-> Len(detections), model |-> model_name,
   error |-> error]

\* YOLODetector.load_model(model_name)
load_model(model_name) == model_name \in AVAILABLE_MODELS /\ ModelFileExists(model_name)

\* YOLODetector.detect(image, model_name, class_filter), no class filtered out
detect(model_name) ==
  IF ~load_model(model_name)
  THEN ModelResult(<<>>, model_name, Some("Failed to load model"))
  ELSE IF PredictRaises(model_name)
  THEN ModelResult(<<>>, model_name, Some("str(e)"))
  ELSE ModelResult(Predict(model_name), model_name, None)

\* Mutant of RunModel: a model that cannot be loaded is passed over in silence.
RunModelSilent(camera, model_name) ==
  IF model_name \notin AVAILABLE_MODELS
  THEN ModelResult(<<>>, model_name, Some("not configured"))
  ELSE IF ~load_model(model_name)
  THEN ModelResult(<<>>, model_name, None)
  ELSE IF camera.features.class_filters = "null"
  THEN ModelResult(<<>>, model_name, Some("str(e)"))
  ELSE detect(model_name)

\* Lines 186-262, the body of "for model_name in camera.active_models": the
\* entry results[model_name].  features["class_filters"] = None makes line 242
\* raise AttributeError, which the except of line 255 turns into an entry.
RunModel(camera, model_name) ==
  IF model_name \notin AVAILABLE_MODELS
  THEN ModelResult(<<>>, model_name, Some("not configured"))
  ELSE IF ~load_model(model_name)
  THEN ModelResult(<<>>, model_name, Some("Failed to load model"))
  ELSE IF camera.features.class_filters = "null"
  THEN ModelResult(<<>>, model_name, Some("str(e)"))
  ELSE detect(model_name)

\* Lines 185-262: the loop, from model k on; acc is results and detected_objects
RECURSIVE RunModels(_, _, _)
RunModels(camera, k, acc) ==
  IF k > Len(camera.active_models[1]) THEN acc
  ELSE LET model_name == camera.active_models[1][k]
           entry == RunModel(camera, model_name)
       IN RunModels(camera, k + 1,
                    [results |-> FunSet(acc.results, model_name, entry),
                     detected_objects |-> acc.detected_objects \o entry.detections])

\* speed_calculator = SpeedCalculator(): fps: int = 30
speed_calculator == [fps |-> 30]

\* a * (n / d) on floats
Scale(a, n, d) == Root(a[1] * n * n, a[2] * d * d)

\* SpeedCalculator.calculate_speed(velocity, pixels_per_meter) of calculator self
calculate_speed(self, velocity, pixels_per_meter) ==
  LET vx == velocity[1]
      vy == velocity[2]
      speed_px == Times(Hypot(vx, vy), self.fps)
  IN [speed_px_per_sec |-> speed_px,
      velocity_x |-> vx * self.fps,
      velocity_y |-> vy * self.fps,
      metric |-> IF Truthy(pixels_per_meter)
                 THEN LET speed_m_per_sec == Div(speed_px, pixels_per_meter)
                      IN Some([speed_m_per_sec |-> speed_m_per_sec,
                               speed_kmh |-> Scale(speed_m_per_sec, 18, 5)])
                 ELSE None]

\* Lines 328-337: the position and the distance in metres.  A ratio of None or
\* 0.0 makes the division raise, and the except of line 338 leaves obj_data as
\* it was.  sqrt(real_x ** 2 + real_y ** 2) is taken exactly, as the length of
\* the centroid over the ratio.
DistanceData(centroid, pixels_per_meter) ==
  IF ~Truthy(pixels_per_meter) THEN None
  ELSE LET distance == Div(Hypot(centroid[1], centroid[2]), pixels_per_meter)
       IN Some([position_meters |-> [x |-> Div(Float(centroid[1]), pixels_per_meter),
                                     y |-> Div(Float(centroid[2]), pixels_per_meter)],
                distance_from_camera_m |-> distance,
                distance_from_camera_ft |-> [metres |-> distance, times |-> "3.28084"]])

\* Mutant of ObjData: the ratio is passed on whether or not the camera is calibrated.
ObjDataAnyRatio(camera, obj) ==
  [track_id |-> obj.track_id, class_name |-> obj.class_name, velocity |-> obj.velocity,
   centroid |-> obj.centroid,
   speed |-> IF camera.features.speed
             THEN Some(calculate_speed(speed_calculator, obj.velocity,
                                       camera.pixels_per_meter))
             ELSE None,
   distance |-> IF camera.features.distance /\ camera.is_calibrated
                THEN DistanceData(obj.centroid, camera.pixels_per_meter)
                ELSE None]

\* Lines 291-341 for one tracked object: obj_data, the keys of speed_data and
\* of the distance block being there or not
ObjData(camera, obj) ==
  [track_id |-> obj.track_id, class_name |-> obj.class_name, velocity |-> obj.velocity,
   centroid |-> obj.centroid,
   speed |-> IF camera.features.speed
             THEN Some(calculate_speed(speed_calculator, obj.velocity,
                                       IF camera.is_calibrated
                                       THEN camera.pixels_per_meter ELSE None))
             ELSE None,
   distance |-> IF camera.features.distance /\ camera.is_calibrated
                THEN DistanceData(obj.centroid, camera.pixels_per_meter)
                ELSE None]

\* Mutant of CriticalError: the exception leaves the function.
CriticalErrorRaised(camera) == None

\* Lines 354-362: the answer of the outermost except
CriticalError(camera) ==
  Some([camera_id |-> Some(camera.id), results |-> <<>>, tracker_input |-> None,
        tracking |-> None, calibrated |-> FALSE, error |-> TRUE])

\* Lines 165-174: the answer when the registry has no session for the camera
StreamNotAvailable(camera) ==
  Some([camera_id |-> Some(camera.id), results |-> <<>>, tracker_input |-> None,
        tracking |-> None, calibrated |-> FALSE, error |-> TRUE])

\* The centroid of the objects tracker.update returns, in pixels
TrackedCentroid == <<30, 40>>

\* process_frame_sync(camera, image), lines 157-362: the value returned, None
\* standing for an exception that leaves the function.  stream is what
\* stream_manager.get_stream(camera_id) gives, velocity the velocity of the
\* objects tracker.update returns.  "for model_name in None" raises.
process_frame_sync(camera, stream, velocity) ==
  IF stream = None THEN StreamNotAvailable(camera)
  ELSE IF camera.features.detection /\ camera.active_models = None
  THEN CriticalError(camera)
  ELSE LET ran == IF camera.features.detection
                  THEN RunModels(camera, 1, [results |-> <<>>, detected_objects |-> <<>>])
                  ELSE [results |-> <<>>, detected_objects |-> <<>>]
           filtered_detections == ran.detected_objects
           tracked_objects ==
             [i \in 1..Len(filtered_detections) |->
                [track_id |-> i, class_name |-> filtered_detections[i].label,
                 velocity |-> velocity, centroid |-> TrackedCentroid]]
           tracks == camera.features.tracking /\ stream[1].tracker
       IN Some([camera_id |-> Some(camera.id),
                results |-> ran.results,
                tracker_input |-> IF tracks THEN Some(filtered_detections) ELSE None,
                tracking |-> IF tracks
                             THEN Some([i \in 1..Len(tracked_objects) |->
                                          ObjData(camera, tracked_objects[i])])
                             ELSE None,
                calibrated |-> camera.is_calibrated,
                error |-> FALSE])

\* camera.active_models: None (a null column), or a list of up to three names
ActiveModelLists == {None} \cup {Some(l) : l \in UNION {[1..n -> ModelNames] : n \in {0, 1, 2, 3}}}

\* camera.features, with the keys the frame reads
FrameFeatures ==
  [detection : BOOLEAN, tracking : BOOLEAN, speed : BOOLEAN, distance : BOOLEAN,
   class_filters : {"absent", "null"}]

\* is_calibrated and pixels_per_meter of the row: as calibration and its
\* clearing leave them, and as an update of one of the two columns leaves them
FrameCalibrations ==
  {<<FALSE, None>>, <<FALSE, Float(50)>>, <<TRUE, Float(0)>>, <<TRUE, Float(50)>>,
   <<TRUE, Float(100)>>}

\* The Camera rows a frame is processed for: fps, and calibrated or not
FrameCameras ==
  {[id |-> "cam1", fps |-> f, is_calibrated |-> c[1], pixels_per_meter |-> c[2],
    features |-> ft, active_models |-> am] :
     f \in {15, 30}, c \in FrameCalibrations,
     ft \in FrameFeatures, am \in ActiveModelLists}

\* What get_stream gives: no session, or the session, with or without a tracker
FrameStreams == {None, Some([tracker |-> FALSE]), Some([tracker |-> TRUE])}

\* Velocities of tracked objects, in pixels per frame
Velocities == {<<10, 0>>, <<3, 4>>}

FrameInit ==
  frame_call = [pc |-> "idle", camera |-> None, stream |-> None, velocity |-> None,
                result |-> None]

\* loop.run_in_executor(thread_pool, process_frame_sync, camera, frame) is submitted
FrameSubmit ==
  /\ frame_call.pc = "idle"
  /\ \E camera \in FrameCameras, stream \in FrameStreams, velocity \in Velocities :
       frame_call' = [pc |-> "submitted", camera |-> Some(camera), stream |-> stream,
                      velocity |-> Some(velocity), result |-> None]
  /\ UNCHANGED <<coreVars, sessionVars, calibVars, adminVars, digestVars>>

\* process_frame_sync runs and returns the result message
ProcessFrame ==
  /\ frame_call.pc = "submitted"
  /\ frame_call' = [frame_call EXCEPT
                      !.pc = "done",
                      !.result = process_frame_sync(frame_call.camera[1], frame_call.stream,
                                                    frame_call.velocity[1])]
  /\ UNCHANGED <<coreVars, sessionVars, calibVars, adminVars, digestVars>>

FrameNext == FrameSubmit \/ ProcessFrame

(***************************************************************************)
(* DigestAuth of api/http_camera_proxy.py.  A string built with ":"        *)
(* between its parts is the sequence of the parts; hashlib.md5(..)         *)
(* .hexdigest() is an injective constructor over such sequences.  A        *)
(* WWW-Authenticate header is the sequence of its key=value parameters; a  *)
(* value is its comma-separated items, written in quotes or bare.  The     *)
(* parsed value of a parameter is the sequence of the items the regular    *)
(* expression keeps: <<>> is the empty string.                             *)
(***************************************************************************)
MaxDigestCalls == 2

\* hashlib.md5(input.encode()).hexdigest()
md5(input) == <<"md5", input>>

HexDigits == <<"0", "1", "2", "3", "4", "5", "6", "7", "8", "9", "a", "b", "c", "d", "e", "f">>

RECURSIVE Pow16(_)
Pow16(k) == IF k = 0 THEN 1 ELSE 16 * Pow16(k - 1)

\* f'{n:08x}'
Hex8(n) == [i \in 1..8 |-> HexDigits[((n \div Pow16(8 - i)) % 16) + 1]]

\* One key=value parameter of a challenge
Param(key, quoted, items) == [key |-> key, quoted |-> quoted, items |-> items]

\* The challenge of the example of RFC 2617, section 3.5
RfcChallenge ==
  <<Param("realm", TRUE, <<"testrealm@host.com">>),
    Param("qop", TRUE, <<"auth", "auth-int">>),
    Param("nonce", TRUE, <<"dcd98b7102dd2f0e8b11d0f600bfb0c093">>),
    Param("opaque", TRUE, <<"5ccc069c403ebaf9f0171e9517f40e41">>)>>

\* The WWW-Authenticate headers a camera may answer the probe with
Challenges ==
  {RfcChallenge,
   <<Param("realm", TRUE, <<"cam">>), Param("nonce", TRUE, <<"n1">>)>>,
   <<Param("realm", TRUE, <<"cam">>), Param("nonce", TRUE, <<"n1">>),
     Param("qop", FALSE, <<"auth">>), Param("algorithm", FALSE, <<"MD5">>)>>,
   <<Param("realm", TRUE, <<"cam">>), Param("qop", TRUE, <<"auth">>),
     Param("nonce", TRUE, <<"n2">>), Param("opaque", TRUE, <<"o1">>)>>,
   <<Param("realm", TRUE, <<"cam">>), Param("nonce", TRUE, <<"n2">>),
     Param("qop", FALSE, <<"auth", "auth-int">>)>>}

\* What (\w+)=("[^"]*"|[^,\s]*) and value.strip('"') keep of one parameter: all
\* of a quoted value, a bare value up to its first comma
ParsedValue(param) ==
  IF param.quoted \/ param.items = <<>> THEN param.items ELSE <<param.items[1]>>

\* DigestAuth._parse_challenge: the dict, a later key replacing an earlier one
RECURSIVE ParseFrom(_, _, _)
ParseFrom(www_authenticate, k, challenge) ==
  IF k > Len(www_authenticate) THEN challenge
  ELSE ParseFrom(www_authenticate, k + 1,
                 FunSet(challenge, www_authenticate[k].key,
                        ParsedValue(www_authenticate[k])))

_parse_challenge(www_authenticate) == ParseFrom(www_authenticate, 1, <<>>)

\* random.choices(string.ascii_letters + string.digits, k=16), joined
Cnonces == {"Xk3fTq0aLm9ZpR4s", "a1B2c3D4e5F6g7H8", "0000000000000000"}

DigestCredentials == {<<"Mufasa", "Circle Of Life">>, <<"admin", "pw">>}

DigestUris == {"/dir/index.html", "/video", "/cgi-bin/mjpg"}

\* DigestAuth._build_digest_header(method, uri, challenge); cnonce is the value
\* random.choices gives.  The value is the object afterwards and the header.
_build_digest_header(self, method, uri, challenge, cnonce) ==
  LET realm == Get(challenge, "realm", <<>>)
      nonce == Get(challenge, "nonce", <<>>)
      qop == Get(challenge, "qop", <<>>)
      opaque == Get(challenge, "opaque", <<>>)
      algorithm == Get(challenge, "algorithm", <<"MD5">>)
      nc_value == Hex8(self.nc + 1)
      ha1 == md5(<<self.username, realm, self.password>>)
      ha2 == md5(<<method, uri>>)
      response_hash == IF qop # <<>>
                       THEN md5(<<ha1, nonce, nc_value, cnonce, qop, ha2>>)
                       ELSE md5(<<ha1, nonce, ha2>>)
  IN [self |-> [self EXCEPT !.nc = @ + 1],
      header |-> [username |-> self.username, realm |-> realm, nonce |-> nonce,
                  uri |-> uri, response |-> response_hash,
                  qop |-> IF qop # <<>> THEN Some(qop) ELSE None,
                  nc |-> IF qop # <<>> THEN Some(nc_value) ELSE None,
                  cnonce |-> IF qop # <<>> THEN Some(cnonce) ELSE None,
                  opaque |-> IF opaque # <<>> THEN Some(opaque) ELSE None,
                  algorithm |-> IF algorithm # <<>> THEN Some(algorithm) ELSE None]]

DigestInit ==
  /\ digest = None
  /\ digest_call = [op |-> "none", www_authenticate |-> <<>>, method |-> "", uri |-> "",
                    cnonce |-> "", pre |-> None, header |-> None]

\* DigestAuth(username, password): nc = 0
NewDigestAuth ==
  /\ \E c \in DigestCredentials :
       digest' = Some([username |-> c[1], password |-> c[2], nc |-> 0])
  /\ digest_call' = [op |-> "init", www_authenticate |-> <<>>, method |-> "", uri |-> "",
                     cnonce |-> "", pre |-> digest, header |-> None]
  /\ UNCHANGED <<coreVars, sessionVars, calibVars, adminVars, frameVars>>

\* Lines 148-151 of proxy_camera_stream: the challenge of the 401 answer is
\* parsed and the Authorization header of the second GET is built
BuildDigestHeader ==
  /\ digest # None
  /\ digest[1].nc < MaxDigestCalls
  /\ \E www_authenticate \in Challenges, uri \in DigestUris, cnonce \in Cnonces :
       LET r == _build_digest_header(digest[1], "GET", uri,
                                     _parse_challenge(www_authenticate), cnonce)
       IN /\ digest' = Some(r.self)
          /\ digest_call' = [op |-> "build", www_authenticate |-> www_authenticate,
                             method |-> "GET", uri |-> uri, cnonce |-> cnonce,
                             pre |-> digest, header |-> Some(r.header)]
  /\ UNCHANGED <<coreVars, sessionVars, calibVars, adminVars, frameVars>>

DigestNext == NewDigestAuth \/ BuildDigestHeader


(***************************************************************************)
(* Specifications                                                          *)
(***************************************************************************)
Init ==
  /\ TrackerInit /\ GovInit /\ WsInit /\ RegInit /\ RelayInit
  /\ CalibInit /\ AdminInit /\ FrameInit /\ DigestInit /\ SessionInit

TrackerNext == Update

SpecTracker == Init /\ [][TrackerNext]_vars

SpecGov == Init /\ [][GovNext]_vars

SpecWs == Init /\ [][WsNext]_vars

\* The event loop runs every coroutine that is ready, a sleep ends, and a pool
\* thread that has begun a call finishes it; the client and the camera owe nothing.
SpecWsFair == Init /\ [][WsNext]_vars /\ \A s \in Subs : WF_vars(ServerStep(s))

SpecRegistry == Init /\ [][RegNext]_vars

SpecSession == Init /\ [][SessionNext]_vars

SpecRelay == Init /\ [][RelayNext]_vars

SpecCalib == Init /\ [][CalibNext]_vars

SpecAdmin == Init /\ [][AdminNext]_vars

SpecFrame == Init /\ [][FrameNext]_vars

SpecDigest == Init /\ [][DigestNext]_vars

(***************************************************************************)
(* Claims about the tracker (checked under SpecTracker)                    *)
(***************************************************************************)
\* The last update call ran the matching loop (it had objects and detections).
LastUpdateMatched == hist.nupdates > 0 /\ hist.detections # <<>> /\ hist.pre.objects # <<>>

\* The squared distance matrix of the last update call.
LastMatrix == UpdateMatrix(hist.pre, hist.detections)

\* C1: a track id returned by register is never returned again by a later
\* register of the same tracker, whether the earlier object is live or gone.
C1_TrackIdNeverReissued ==
  \A i, j \in 1..Len(hist.issued) : i # j => hist.issued[i] # hist.issued[j]

\* C2: in every update call no object is matched to a detection farther than
\* max_distance from it: every assigned (object, detection) pair is within
\* max_distance, an object whose hits grew moved at most max_distance, and every
\* detection is either matched or registered as a new track.
C2_NoMatchBeyondMaxDistance ==
  LastUpdateMatched =>
    /\ \A k \in 1..Len(hist.pairs) :
         Dist2(hist.pre.objects[hist.pairs[k][1]].centroid,
               Centroid(hist.detections[hist.pairs[k][2]])) <= max_distance * max_distance
    /\ \A i \in 1..Len(hist.pre.objects) : \A j \in 1..Len(objects) :
         (/\ objects[j].track_id = hist.pre.objects[i].track_id
          /\ objects[j].hits = hist.pre.objects[i].hits + 1)
           => Dist2(hist.pre.objects[i].centroid, objects[j].centroid)
                <= max_distance * max_distance
    /\ Len(hist.pairs) + Len(hist.new_ids) = Len(hist.detections)

\* C2 witness: an update matched one object while another detection of the same
\* call lay beyond max_distance of an object and was registered as a new track.
C2_Witness ==
  /\ LastUpdateMatched
  /\ Len(hist.pairs) >= 1
  /\ Len(hist.new_ids) >= 1
  /\ \E r \in 1..Len(hist.pre.objects) : \E c \in 1..Len(hist.detections) :
       /\ LastMatrix[r][c] > max_distance * max_distance
       /\ \A k \in 1..Len(hist.pairs) : hist.pairs[k][2] # c

\* C3: after n consecutive update([]) calls the live objects are exactly those
\* whose miss count s before the calls satisfies s + n <= max_disappeared, and
\* each of them has miss count s + n: an object goes at the first call with
\* s + n > max_disappeared, never earlier and never later.
C3_EmptyUpdatesDeregisterPastThreshold ==
  hist.empty_run > 0 =>
    /\ Keys(objects) = {t \in DOMAIN hist.run_base :
                          hist.run_base[t] + hist.empty_run <= max_disappeared}
    /\ DOMAIN disappeared = Keys(objects)
    /\ \A t \in Keys(objects) : disappeared[t] = hist.run_base[t] + hist.empty_run

\* C3 witness: a second consecutive update([]) removed an object that was live
\* after the first one.
C3_Witness ==
  /\ hist.empty_run >= 2
  /\ \E t \in DOMAIN hist.run_base :
       /\ hist.run_base[t] + hist.empty_run = max_disappeared + 1
       /\ t \notin Keys(objects)

\* The order a stable sort gives: ascending keys, equal keys by index.
RECURSIVE StableOrder(_, _)
StableOrder(v, S) ==
  IF S = {} THEN <<>>
  ELSE LET i == CHOOSE j \in S : \A k \in S : v[j] < v[k] \/ (v[j] = v[k] /\ j <= k)
       IN <<i>> \o StableOrder(v, S \ {i})

\* C4: the objects are processed in ascending order of their minimum distance
\* to any detection, ties by enumeration order, and the pairs assigned are those
\* of the greedy loop run in exactly that order.
C4_GreedyOrderTiesByEnumeration ==
  LastUpdateMatched =>
    LET D == LastMatrix
        rows == StableOrder(RowMins(D), 1..Len(hist.pre.objects))
    IN hist.pairs = MatchLoop(NoMatch, rows, D).pairs

(***************************************************************************)
(* Claims about the rate limiter (checked under SpecGov)                   *)
(***************************************************************************)
\* The time of the last offer before the k-th that was accepted.
LastAcceptedBefore(k) ==
  LET S == {j \in 1..(k - 1) : offers[j].accepted}
  IN offers[CHOOSE j \in S : \A i \in S : i <= j].t

\* The times offered and the answers given, as sequences.
OfferTimes == [k \in 1..Len(offers) |-> offers[k].t]

OfferAnswers == [k \in 1..Len(offers) |-> offers[k].accepted]

\* The k-th offer was made with no reset() since the construction.
BeforeReset(k) == last_call.resets = 0 \/ k <= last_call.reset_at

\* C10: for a target rate f > 0 the first frame offered is accepted and a later
\* frame offered at time t is accepted iff t minus the time of the last
\* accepted frame is >= 1/f (here (t - last) * f >= 100 hundredths); with
\* f = 10 and offers at 0, 0.05, 0.12, 0.21 exactly 0 and 0.12 are accepted.
\* (The offers are those of a limiter that has not been reset.)
C10_AcceptIffIntervalElapsed ==
  /\ \A k \in 1..Len(offers) :
       (offers[k].rate > 0 /\ BeforeReset(k)) =>
         IF k = 1 THEN offers[k].accepted
         ELSE /\ \E j \in 1..(k - 1) : offers[j].accepted
              /\ offers[k].accepted <=>
                   (offers[k].t - LastAcceptedBefore(k)) * offers[k].rate >= 100
  /\ (/\ OfferTimes = <<0, 5, 12, 21>>
      /\ \A k \in 1..Len(offers) : offers[k].rate = 10 /\ BeforeReset(k))
       => OfferAnswers = <<TRUE, FALSE, TRUE, FALSE>>

\* C10 witness: the limiter of rate 10 has been offered frames at 0, 0.05, 0.12
\* and 0.21 and has accepted the first and the third.
C10_Witness ==
  /\ limiter # None
  /\ limiter[1].target_fps = 10
  /\ last_call.changes = 0
  /\ last_call.resets = 0
  /\ OfferTimes = <<0, 5, 12, 21>>
  /\ OfferAnswers = <<TRUE, FALSE, TRUE, FALSE>>
  /\ limiter[1].frame_count = 2

\* C11: update_target_fps(g) leaves the last-accepted timestamp and the count
\* of accepted frames as they were, and the very next should_process_frame
\* decision (when a frame was accepted before, and g > 0) accepts iff the time
\* since the last acceptance is >= 1/g, i.e. (t - last) * g >= 100 hundredths.
\* (The decision is one of a limiter that has not been reset.)
C11_NewRateAtNextDecision ==
  /\ last_call.op = "update" =>
        /\ limiter[1].last_frame_time = last_call.pre[1].last_frame_time
        /\ limiter[1].frame_count = last_call.pre[1].frame_count
  /\ \A k \in 2..Len(offers) :
       (offers[k].after_update /\ offers[k].rate > 0 /\ BeforeReset(k)) =>
         (offers[k].accepted <=>
            (offers[k].t - LastAcceptedBefore(k)) * offers[k].rate >= 100)

\* C11 witness: after frames were accepted at rate 10, update_target_fps(30) was
\* called and the next frame, 0.04 s after the last accepted one, was accepted:
\* the old interval of 0.1 s would have dropped it.
C11_Witness ==
  /\ Len(offers) >= 2
  /\ LET k == Len(offers)
     IN /\ offers[k].after_update
        /\ BeforeReset(k)
        /\ offers[k].rate = 30
        /\ offers[k - 1].rate = 10
        /\ offers[k].accepted
        /\ offers[k].t - LastAcceptedBefore(k) = 4

(***************************************************************************)
(* Claims about the websocket endpoint and the registry (under SpecWs)     *)
(***************************************************************************)
\* The coroutine of s is inside its frame loop.
InLoop(s) == sub[s].pc \in {"loop", "sleeping", "await_result", "sending"}

\* C5: for every camera, at most one tracker.update call on the camera's
\* tracker is in progress at any time, however many subscribers it has.
C5_OneTrackerUpdateAtATime ==
  \A s1, s2 \in Subs :
    (/\ s1 # s2
     /\ CameraOf(s1) = CameraOf(s2)
     /\ worker[s1].wpc = "in_update"
     /\ worker[s2].wpc = "in_update")
      => worker[s1].stream # worker[s2].stream

\* C6: when several frame-processing steps of one camera id run at the same
\* time while no session exists, exactly one CameraStream is created for the id
\* and every step obtains that same session; no created session is overwritten.
C6_OneSessionPerCamera ==
  /\ \A c \in Cameras : sessions[c] <= 1
  /\ \A s \in Subs :
       worker[s].stream # None => worker[s].stream = active_streams[CameraOf(s)]

\* C7: when a delivery to a subscriber fails while its frame loop runs, its loop
\* ends and the frame-source handle opened for it has been released exactly once.
C7_HandleReleasedOnceOnDisconnect ==
  \A s \in Subs :
    (sub[s].pc = "done" /\ sub[s].exit = "send_failed")
      => caps[sub[s].cap[1]].released = 1

\* C8: a subscriber connecting to or disconnecting from a camera never ends the
\* frame loop of another subscriber of the camera and never releases or replaces
\* the source handle that subscriber's loop reads from.
C8_CoSubscribersUnaffected ==
  \A s \in Subs :
    /\ InLoop(s) => /\ streams[CameraOf(s)] = sub[s].cap
                    /\ caps[sub[s].cap[1]].released = 0
                    /\ running[CameraOf(s)]
    /\ sub[s].exit # "not_running"

\* s is strictly increasing.
Increasing(q) == \A i, j \in 1..Len(q) : i < j => q[i] < q[j]

\* C9: within one subscriber loop the frames go to the worker pool in capture
\* order, a frame is handed over only when the result of every frame handed
\* over before it has been delivered or its delivery abandoned, and the results
\* are delivered in capture order.
C9_FramesInCaptureOrder ==
  \A s \in Subs :
    LET sb == sub[s]
        settled == {sb.delivered[i] : i \in 1..Len(sb.delivered)} \cup sb.abandoned
    IN /\ Increasing(sb.submitted)
       /\ Increasing(sb.delivered)
       /\ \A k \in 1..(Len(sb.submitted) - 1) : sb.submitted[k] \in settled
       /\ settled \subseteq {sb.submitted[i] : i \in 1..Len(sb.submitted)}
       /\ sb.pc = "loop" => sb.submitted = <<>> \/ sb.submitted[Len(sb.submitted)] \in settled

\* C9 witness: a loop has delivered the results of two frames and abandoned none.
C9_Witness ==
  \E s \in Subs :
    /\ Len(sub[s].delivered) >= 2
    /\ sub[s].abandoned = {}
    /\ sub[s].pc = "loop"

\* C28: once the camera has stopped yielding frames (every read fails from then
\* on), each subscriber loop of the camera eventually leaves its loop: the dead
\* stream is torn down, not polled forever (checked under SpecWsFair).
C28_DeadStreamTornDown ==
  \A s \in Subs :
    (source_dead[CameraOf(s)] /\ InLoop(s)) ~> (sub[s].pc = "done")

(***************************************************************************)
(* Claims about the session registry (checked under SpecRegistry)          *)
(***************************************************************************)
\* The tracking flag of a feature map is on.
TrackingOn(features) == Get(features, "tracking", FALSE)

\* C12: add_stream for a camera id that has a registry entry leaves the entry,
\* its tracker and everything the tracker holds unchanged, whatever tracker
\* updates came before; a session is created only by a call for an id without one.
C12_AddStreamIdempotent ==
  reg_hist.op = "add_stream" =>
    IF reg_hist.pre[reg_hist.id] # None
    THEN registry = reg_hist.pre /\ trackers_made = reg_hist.pre_made
    ELSE /\ registry[reg_hist.id] # None
         /\ registry[reg_hist.id][1].camera.features = reg_hist.features
         /\ \A id \in RegistryIds \ {reg_hist.id} : registry[id] = reg_hist.pre[id]

\* C12 witness: add_stream was called with another feature map for an id whose
\* session's tracker had taken updates, and the session is as it was.
C12_Witness ==
  /\ reg_hist.op = "add_stream"
  /\ reg_hist.pre[reg_hist.id] # None
  /\ reg_hist.pre[reg_hist.id][1].tracker # None
  /\ reg_hist.pre[reg_hist.id][1].tracker[1].nupdates > 0
  /\ reg_hist.features # reg_hist.pre[reg_hist.id][1].camera.features
  /\ registry = reg_hist.pre

\* C13: after any sequence of add_stream, update_stream_features and
\* remove_stream every session of the registry has a tracker iff the tracking
\* flag of its feature map is on.
C13_TrackerIffTrackingEnabled ==
  \A id \in RegistryIds :
    registry[id] # None =>
      (registry[id][1].tracker # None <=> TrackingOn(registry[id][1].camera.features))

\* C13 witness: update_stream_features turned tracking off on a session that had
\* a tracker, and the session has none now.
C13_Witness ==
  /\ reg_hist.op = "update_stream_features"
  /\ reg_hist.pre[reg_hist.id] # None
  /\ reg_hist.pre[reg_hist.id][1].tracker # None
  /\ ~TrackingOn(reg_hist.features)
  /\ registry[reg_hist.id][1].tracker = None

\* C14: update_features on a session with tracking on before and after keeps the
\* same tracker with everything it holds; only an off-to-on change makes a new
\* empty tracker, only an on-to-off change discards the tracker.
C14_TrackerKeptOnUnrelatedEdits ==
  (reg_hist.op = "update_stream_features" /\ reg_hist.pre[reg_hist.id] # None) =>
    LET before == reg_hist.pre[reg_hist.id][1]
        after == registry[reg_hist.id][1]
        was_on == TrackingOn(before.camera.features)
        is_on == TrackingOn(reg_hist.features)
    IN /\ registry[reg_hist.id] # None
       /\ after.camera.features = reg_hist.features
       /\ (was_on /\ is_on) => after.tracker = before.tracker /\ after.tracker # None
       /\ (~was_on /\ is_on) =>
            /\ after.tracker = Some(NewObjectTracker(trackers_made))
            /\ trackers_made = reg_hist.pre_made + 1
       /\ (was_on /\ ~is_on) => after.tracker = None /\ before.tracker # None
       /\ (~was_on /\ ~is_on) => after.tracker = None /\ before.tracker = None
       /\ ~(~was_on /\ is_on) => trackers_made = reg_hist.pre_made

\* C14 witness: an edit of another feature on a session whose tracker had taken
\* updates, tracking on before and after; the tracker is the one it was.
C14_Witness ==
  /\ reg_hist.op = "update_stream_features"
  /\ reg_hist.pre[reg_hist.id] # None
  /\ TrackingOn(reg_hist.pre[reg_hist.id][1].camera.features)
  /\ TrackingOn(reg_hist.features)
  /\ reg_hist.features # reg_hist.pre[reg_hist.id][1].camera.features
  /\ reg_hist.pre[reg_hist.id][1].tracker[1].nupdates > 0
  /\ registry[reg_hist.id][1].tracker = reg_hist.pre[reg_hist.id][1].tracker

\* C15: when the last subscriber of a camera is gone, the registry holds no
\* entry for the camera id, so that a later subscriber starts with a fresh
\* session and an empty tracker.
C15_SessionGoneWithLastSubscriber ==
  \A c \in Cameras :
    (\A s \in Subs : CameraOf(s) = c => sub[s].pc = "done" /\ worker[s].wpc = "idle")
      => active_streams[c] = None

(***************************************************************************)
(* Claims about the HTTP relay (checked under SpecRelay)                   *)
(***************************************************************************)
\* C16: once the subscriber is marked disconnected the relay delivers no
\* further chunk to it, and the first disconnect check after that (the one made
\* before the next chunk would be delivered, so after at most one more chunk has
\* come from the upstream) ends the reading and releases the upstream connection.
C16_StopsAtNextDisconnectCheck ==
  /\ client.delivered_after_gone = 0
  /\ client.read_after_gone <= 1
  /\ client.checks_after_gone <= 1
  /\ client.checks_after_gone = 1 =>
       /\ relay.pc = "done"
       /\ relay.exit = "disconnected"
  /\ relay.pc = "done" => /\ ~upstream.open
                          /\ upstream.released <= 1
                          /\ relay.status = 200 => upstream.released = 1

\* C16 witness: the subscriber went away mid-stream, after a chunk had been
\* delivered; the next check ended the relay and the upstream was released.
C16_Witness ==
  /\ relay.pc = "done"
  /\ relay.exit = "disconnected"
  /\ Len(client.delivered) >= 1
  /\ client.read_after_gone = 1
  /\ client.delivered_after_gone = 0
  /\ upstream.released = 1
  /\ Len(NonEmpty(upstream.body)) > Len(client.delivered)

\* C17: during a successful relay the chunks delivered are a prefix of the
\* non-empty chunks read from the upstream body, in order and unmodified, and
\* the relay holds at most the one chunk it is passing through.
C17_DeliveredIsPrefixOfBody ==
  LET read == NonEmpty(upstream.body)
  IN /\ Len(client.delivered) <= Len(read)
     /\ client.delivered = SubSeq(read, 1, Len(client.delivered))
     /\ Len(read) - Len(client.delivered) <= 1
     /\ Len(relay.held) <= 1
     /\ relay.held # <<>> => relay.held[1] = upstream.body[Len(upstream.body)]
     /\ relay.pc \in {"read", "yielded"} => client.delivered = read

\* C17 witness: a body with an empty chunk between two others has been passed
\* on: the two non-empty chunks were delivered in order.
C17_Witness ==
  /\ relay.pc = "yielded"
  /\ Len(upstream.body) = 3
  /\ upstream.body[2] = ""
  /\ client.delivered = <<upstream.body[1], upstream.body[3]>>
  /\ upstream.body[1] # upstream.body[3]

\* C18: the probe carries no Authorization header; the second request carries a
\* Digest header when the probe was challenged with Digest, and a Basic header
\* only when the probe advertised Basic: no Basic credentials go upstream when
\* the probe was not challenged with Basic.
C18_BasicOnlyWhenAdvertised ==
  /\ Len(upstream.requests) >= 1 => upstream.requests[1].authorization = None
  /\ Len(upstream.requests) >= 2 =>
       LET a == upstream.requests[2].authorization
           probe == relay.probe[1]
       IN (a # None /\ a[1].scheme = "Basic") =>
            (probe.status = 401 /\ "Basic" \in probe.www)

\* The token sequence names no credentials.
NoCredentials(url) ==
  \A i \in 1..Len(url) : url[i] # "@" /\ url[i] \notin CredentialTokens

\* The configured URL with its user information replaced by ui.
WithUserInfo(url, ui) ==
  LET ats == Positions_of(url, {"@"})
      rest == IF ats = {} THEN SubSeq(url, 3, Len(url))
              ELSE SubSeq(url, MaxOf(ats) + 1, Len(url))
  IN <<url[1], url[2]>> \o (IF ui = <<>> THEN <<>> ELSE ui \o <<"@">>) \o rest

\* C19: the URL of the probe and of the authenticated request holds no username
\* and no password, and is the one every configured URL that differs only in
\* its credentials gives.
C19_OutboundUrlWithoutCredentials ==
  \A k \in 1..Len(upstream.requests) :
    /\ NoCredentials(upstream.requests[k].url)
    /\ upstream.requests[k].url = upstream.requests[1].url
    /\ \A ui \in UserInfos :
         StreamUrl(urlparse(WithUserInfo(relay.config, ui))) = upstream.requests[k].url

\* C19 witness: a URL with a user name and a percent-encoded password was
\* configured, and both requests have gone out.
C19_Witness ==
  /\ Len(upstream.requests) = 2
  /\ relay.username = "admin"
  /\ relay.password = "p@ss"
  /\ "@" \in {relay.config[i] : i \in 1..Len(relay.config)}
  /\ upstream.requests[2].authorization # None

\* C20: when the upstream is unreachable or the authenticated request returns a
\* non-success status, no body byte is delivered and the subscriber does not get
\* a successful response: the failure is surfaced to it.
C20_UpstreamFailureSurfaced ==
  relay.exit \in {"unreachable", "bad_status"} =>
    /\ client.delivered = <<>>
    /\ client.response # 200

(***************************************************************************)
(* Claims about what an update does to one object (under SpecTracker)      *)
(***************************************************************************)
\* The ids the last update registered new tracks under.
LastNewIds == {hist.new_ids[i] : i \in 1..Len(hist.new_ids)}

\* The rows (objects before the last update) that it matched.
LastMatchedRows == {hist.pairs[k][1] : k \in 1..Len(hist.pairs)}

\* The object the tracker holds under an id.
ObjectOf(id) == objects[IndexOf(objects, id)]

\* C29: when an update matches object o to detection d, then afterwards o's
\* centroid is the midpoint of d's box, its velocity is new centroid minus old
\* centroid, its box and confidence are d's, its cumulative distance has grown
\* by the length of the displacement, hits and age have grown by 1,
\* time-since-update and the disappeared count are 0 and the new centroid is
\* the last element of the trajectory.  (o is looked at under its id, when the
\* same call has not issued that id again.)
C29_MatchedObjectTakesDetection ==
  \A k \in 1..Len(hist.pairs) :
    LET o == hist.pre.objects[hist.pairs[k][1]]
        d == hist.detections[hist.pairs[k][2]]
    IN o.track_id \notin LastNewIds =>
         /\ o.track_id \in Keys(objects)
         /\ LET n == ObjectOf(o.track_id)
                dx == n.centroid[1] - o.centroid[1]
                dy == n.centroid[2] - o.centroid[2]
                ga == n.distance_traveled[1] - o.distance_traveled[1]
                gb == n.distance_traveled[2] - o.distance_traveled[2]
            IN /\ 2 * n.centroid[1] = d.x1 + d.x2
               /\ 2 * n.centroid[2] = d.y1 + d.y2
               /\ n.velocity = <<dx, dy>>
               /\ n.bbox = <<d.x1, d.y1, d.x2, d.y2>>
               /\ n.confidence = d.confidence
               /\ ga >= 0 /\ gb >= 0 /\ ga * gb = 0
               /\ ga * ga + 2 * gb * gb = dx * dx + dy * dy
               /\ n.hits = o.hits + 1
               /\ n.age = o.age + 1
               /\ n.time_since_update = 0
               /\ disappeared[o.track_id] = 0
               /\ n.trajectory = Append(o.trajectory, n.centroid)
               /\ n.track_id = o.track_id /\ n.class_id = o.class_id

\* C29 witness: an object that had missed a frame was matched to a detection at
\* another position, two to its right.
C29_Witness ==
  \E k \in 1..Len(hist.pairs) :
    LET o == hist.pre.objects[hist.pairs[k][1]]
    IN /\ o.track_id \notin LastNewIds
       /\ o.track_id \in Keys(objects)
       /\ hist.pre.disappeared[o.track_id] = 1
       /\ ObjectOf(o.track_id).velocity = <<2, 0>>
       /\ ObjectOf(o.track_id).distance_traveled = <<2, 0>>

\* C30: an existing object left unmatched by an update, of empty or non-empty
\* detections, has its disappeared count, time-since-update and age increased
\* by 1 and everything else left as it was, and it is deregistered in that call
\* iff its disappeared count then exceeds max_disappeared.  (Looked at under its
\* id, when the same call has not issued that id again.)
C30_UnmatchedObjectAges ==
  hist.nupdates > 0 =>
    \A r \in (1..Len(hist.pre.objects)) \ LastMatchedRows :
      LET o == hist.pre.objects[r]
          misses == hist.pre.disappeared[o.track_id] + 1
      IN o.track_id \notin LastNewIds =>
           IF misses > max_disappeared
           THEN /\ o.track_id \notin Keys(objects)
                /\ o.track_id \notin DOMAIN disappeared
           ELSE /\ o.track_id \in Keys(objects)
                /\ disappeared[o.track_id] = misses
                /\ ObjectOf(o.track_id) =
                     [o EXCEPT !.age = @ + 1, !.time_since_update = @ + 1]

\* C30 witness: an update with a detection matched one object and left another
\* unmatched, which stays with one miss more.
C30_Witness ==
  /\ hist.detections # <<>>
  /\ hist.pairs # <<>>
  /\ \E r \in (1..Len(hist.pre.objects)) \ LastMatchedRows :
       LET o == hist.pre.objects[r]
       IN /\ o.track_id \notin LastNewIds
          /\ o.track_id \in Keys(objects)
          /\ disappeared[o.track_id] = 1
          /\ ObjectOf(o.track_id).age = o.age + 1

(***************************************************************************)
(* Claims about calibration (checked under SpecCalib)                      *)
(***************************************************************************)
\* The points of the last calibration call.
LastPoints == calib_hist.calibration[1].points

\* The first two of the points are at the same pixel, or at the same place.
Degenerate(points) ==
  \/ points[1].pixel_x = points[2].pixel_x /\ points[1].pixel_y = points[2].pixel_y
  \/ points[1].real_x = points[2].real_x /\ points[1].real_y = points[2].real_y

\* pixel_dist / real_dist of the first two of the points
Ratio(points) ==
  Div(Hypot(points[2].pixel_x - points[1].pixel_x, points[2].pixel_y - points[1].pixel_y),
      Hypot(points[2].real_x - points[1].real_x, points[2].real_y - points[1].real_y))

\* C24: calibrate_reference_object returns None for fewer than 2 points and
\* for a zero pixel or real distance between the first two; otherwise, whatever
\* follows the first two points, it returns ratio = pixel_dist / real_dist if
\* ratio >= 10 and ratio * 100 if ratio < 10: 50 px for 1 gives 50, 8 px for 1
\* gives 800.
C24_ReferenceObjectRatio ==
  /\ (calib_hist.result # None /\ Len(LastPoints) < 2) => calib_hist.result[1] = None
  /\ (/\ calib_hist.result # None
      /\ Len(LastPoints) >= 2
      /\ HasKeys(LastPoints[1]) /\ HasKeys(LastPoints[2]))
       => calib_hist.result[1] =
            IF Degenerate(LastPoints) THEN None
            ELSE IF Less(Ratio(LastPoints), 10) THEN Times(Ratio(LastPoints), 100)
            ELSE Ratio(LastPoints)
  /\ calibrate_reference_object(<<Pt(0, 0, 0, 0), Pt(30, 40, 0, 1)>>) = Float(50)
  /\ calibrate_reference_object(<<Pt(0, 0, 0, 0), Pt(8, 0, 0, 1)>>) = Float(800)

\* C24 witness: three points were given, the first two 50 px and 5 apart: the
\* ratio is exactly 10 and is returned as it is.
C24_Witness ==
  /\ calib_hist.result = Some(Float(10))
  /\ Len(LastPoints) = 3
  /\ Ratio(LastPoints) = Float(10)

AllReset(c) ==
  /\ ~c.is_calibrated
  /\ c.pixels_per_meter = None
  /\ c.calibration_mode = None
  /\ c.calibration_points = None

AllSet(c) ==
  /\ c.is_calibrated
  /\ c.pixels_per_meter # None
  /\ c.calibration_mode # None
  /\ c.calibration_points # None

\* C26: a committed clear leaves the flag, the ratio, the mode and the points
\* all reset; no committed row has some of the four reset and the others set;
\* and after any create, calibrate and clear operations the flag is set only if
\* the ratio is a positive number.
C26_ClearResetsAllFour ==
  camera_row # None =>
    /\ AllReset(camera_row[1]) \/ AllSet(camera_row[1])
    /\ (calib_hist.op = "clear" /\ calib_hist.committed) => AllReset(camera_row[1])
    /\ camera_row[1].is_calibrated =>
          /\ camera_row[1].pixels_per_meter # None
          /\ camera_row[1].pixels_per_meter[1] > 0

\* C26 witness: the calibration of a calibrated camera was cleared and committed.
C26_Witness ==
  /\ calib_hist.op = "clear"
  /\ calib_hist.committed
  /\ calib_hist.pre[1].is_calibrated
  /\ AllReset(camera_row[1])

(***************************************************************************)
(* Claims about the administrative updates (checked under SpecAdmin)       *)
(***************************************************************************)
\* C23: an administrative update is tried again only after a lock/busy
\* contention error, at most 3 times in all, sleeping 0.5 s and then 1 s between
\* the attempts; the third contention error in a row ends the request with 503;
\* any other error ends it at once, without another attempt.
C23_RetryOnlyOnContention ==
  LET n == Len(admin.errors)
  IN /\ n <= 3
     /\ admin.attempt < 3
     /\ \A k \in 1..n :
          IF admin.errors[k].contention
          THEN k < 3 \/ (admin.pc = "done" /\ admin.status = 503)
          ELSE k = n /\ admin.pc = "done" /\ admin.status \notin {200, 503}
     /\ admin.status = 503 => n = 3
     /\ admin.sleeps \in {<<>>, <<500>>, <<500, 1000>>}
     /\ Len(admin.sleeps) = admin.attempt

(***************************************************************************)
(* Claims about the frame pipeline (checked under SpecFrame)               *)
(***************************************************************************)
\* The camera and the result of the last process_frame_sync call.
LastCamera == frame_call.camera[1]

LastResult == frame_call.result[1]

\* The model is unconfigured, cannot be loaded, or raises for this camera.
Fails(camera, model_name) ==
  \/ model_name \notin AVAILABLE_MODELS
  \/ ~ModelFileExists(model_name)
  \/ PredictRaises(model_name)
  \/ camera.features.class_filters = "null"

C27_SpeedFromConfiguredRate ==
  /\ (/\ frame_call.pc = "done"
      /\ frame_call.stream = Some([tracker |-> TRUE])
      /\ ~LastResult.error
      /\ LastCamera.is_calibrated
      /\ Truthy(LastCamera.pixels_per_meter)
      /\ LastCamera.features.tracking
      /\ LastCamera.features.speed)
       => \A i \in 1..Len(LastResult.tracking[1]) :
            LET obj == LastResult.tracking[1][i]
                v == obj.velocity
                speed_px == Times(Hypot(v[1], v[2]), LastCamera.fps)
                speed_m == Div(speed_px, LastCamera.pixels_per_meter)
            IN /\ obj.speed # None
               /\ obj.speed[1].speed_px_per_sec = speed_px
               /\ obj.speed[1].metric # None
               /\ obj.speed[1].metric[1].speed_m_per_sec = speed_m
               /\ obj.speed[1].metric[1].speed_kmh = Scale(speed_m, 18, 5)
  /\ LET r == calculate_speed(speed_calculator, <<10, 0>>, Float(100))
     IN /\ r.speed_px_per_sec = Float(300)
        /\ r.metric[1].speed_m_per_sec = Float(3)
        /\ r.metric[1].speed_kmh = Root(2916, 25)

(***************************************************************************)
(* Claims about Digest authentication (checked under SpecDigest)           *)
(***************************************************************************)
\* The response of the example of RFC 2617, section 3.5, as the RFC computes
\* it (the published hexdigest 6629fae49393a05397450978507c4ef1): user Mufasa,
\* password "Circle Of Life", GET /dir/index.html, nc 00000001, cnonce
\* 0a4f113b, qop auth.
RfcResponse ==
  md5(<<md5(<<"Mufasa", <<"testrealm@host.com">>, "Circle Of Life">>),
        <<"dcd98b7102dd2f0e8b11d0f600bfb0c093">>,
        <<"0", "0", "0", "0", "0", "0", "0", "1">>,
        "0a4f113b",
        <<"auth">>,
        md5(<<"GET", "/dir/index.html">>)>>)

\* C21: with realm, nonce and qop the tokens parsed from the challenge, HA1 =
\* hash(user:realm:pass) and HA2 = hash(method:uri), the Digest response is
\* hash(HA1:nonce:HA2) for a challenge without qop and
\* hash(HA1:nonce:nc:cnonce:qop:HA2) for one with qop; and for the reference
\* vector of RFC 2617 the response is the published example value.
C21_DigestResponse ==
  digest_call.op = "build" =>
    LET challenge == _parse_challenge(digest_call.www_authenticate)
        user == digest_call.pre[1]
        realm == Get(challenge, "realm", <<>>)
        nonce == Get(challenge, "nonce", <<>>)
        HA1 == md5(<<user.username, realm, user.password>>)
        HA2 == md5(<<digest_call.method, digest_call.uri>>)
        response == digest_call.header[1].response
    IN /\ "qop" \notin DOMAIN challenge => response = md5(<<HA1, nonce, HA2>>)
       /\ "qop" \in DOMAIN challenge =>
            response = md5(<<HA1, nonce, Hex8(user.nc + 1), digest_call.cnonce,
                             challenge["qop"], HA2>>)
       /\ (/\ digest_call.www_authenticate = RfcChallenge
           /\ user = [username |-> "Mufasa", password |-> "Circle Of Life", nc |-> 0]
           /\ digest_call.uri = "/dir/index.html")
            => response = RfcResponse

(***************************************************************************)
(* Claims about the tracker's bookkeeping (checked under SpecTracker)      *)
(***************************************************************************)
\* C34: after any sequence of update calls, of empty or non-empty detection
\* lists, the three dicts objects, disappeared and kalman_filters have the
\* same key set and each object's disappeared count equals its
\* time_since_update; every key a later update looks up is therefore there.
C34_ThreeMapsOneKeySet ==
  /\ Keys(objects) = DOMAIN disappeared
  /\ Keys(objects) = kalman_filters
  /\ Cardinality(Keys(objects)) = Len(objects)
  /\ \A i \in 1..Len(objects) :
       disappeared[objects[i].track_id] = objects[i].time_since_update

\* C34 witness: the last update, of an empty list, removed one object and left
\* another with one miss.
C34_Witness ==
  /\ hist.nupdates > 0
  /\ hist.detections = <<>>
  /\ \E i \in 1..Len(hist.pre.objects) : hist.pre.objects[i].track_id \notin Keys(objects)
  /\ \E i \in 1..Len(objects) :
       /\ objects[i].time_since_update = 1
       /\ disappeared[objects[i].track_id] = 1

\* A deque that holds trajectory_maxlen centroids.
FullTrajectory == [i \in 1..trajectory_maxlen |-> <<1, 1>>]

Min(a, b) == IF a <= b THEN a ELSE b

IssuedBefore ==
  {hist.issued[i] : i \in 1..(Len(hist.issued) - Len(hist.new_ids))}

\* The last update drew ids that differ from each other and from every id
\* issued before.
FreshIdsDistinct ==
  /\ Cardinality(LastNewIds) = Len(hist.new_ids)
  /\ LastNewIds \cap IssuedBefore = {}

\* The live objects that the last update has touched.
JustSeen == {i \in 1..Len(objects) : objects[i].time_since_update = 0}

\* C36: after an update with a non-empty detection list whose fresh ids are
\* distinct, the detections and the live objects with time_since_update = 0
\* correspond one to one, each object carrying the box of its detection and
\* being either the object matched to it or one registered by this call; when
\* no object was live before, the objects are the detections in order, each
\* new and with zero velocity.
C36_EachDetectionOneTrack ==
  (hist.nupdates > 0 /\ hist.detections # <<>> /\ FreshIdsDistinct) =>
    /\ Cardinality(JustSeen) = Len(hist.detections)
    /\ \E f \in [1..Len(hist.detections) -> JustSeen] :
         /\ \A c1, c2 \in 1..Len(hist.detections) : f[c1] = f[c2] => c1 = c2
         /\ \A c \in 1..Len(hist.detections) :
              LET d == hist.detections[c]
                  o == objects[f[c]]
              IN /\ o.bbox = <<d.x1, d.y1, d.x2, d.y2>>
                 /\ o.centroid = Centroid(d)
                 /\ \/ o.track_id \in LastNewIds /\ o.hits = 1 /\ o.velocity = <<0, 0>>
                    \/ \E k \in 1..Len(hist.pairs) :
                         /\ hist.pairs[k][2] = c
                         /\ hist.pre.objects[hist.pairs[k][1]].track_id = o.track_id
    /\ hist.pre.objects = <<>> =>
         /\ Len(objects) = Len(hist.detections)
         /\ hist.pairs = <<>>
         /\ \A c \in 1..Len(hist.detections) :
              /\ objects[c].track_id = hist.new_ids[c]
              /\ objects[c].centroid = Centroid(hist.detections[c])
              /\ objects[c].velocity = <<0, 0>>
              /\ objects[c].age = 1 /\ objects[c].hits = 1
              /\ objects[c].trajectory = <<Centroid(hist.detections[c])>>

\* C36 witness: of two detections one was matched to an existing object and the
\* other registered as new, while a third object went unmatched.
C36_Witness ==
  /\ FreshIdsDistinct
  /\ Len(hist.detections) = 2
  /\ Len(hist.pairs) = 1
  /\ Len(hist.new_ids) = 1
  /\ Cardinality(JustSeen) = 2
  /\ Len(objects) = 3

\* The distance matrix of the last update.
LastD == UpdateMatrix(hist.pre, hist.detections)

\* The columns (detections) the last update matched.
LastMatchedCols == {hist.pairs[k][2] : k \in 1..Len(hist.pairs)}

\* Row r of the last update, with distance matrix D, went unmatched although
\* column c, within max_distance of it, was matched to no object.
PassedOver(D, r, c) ==
  /\ r \in (1..Len(hist.pre.objects)) \ LastMatchedRows
  /\ c \in (1..Len(hist.detections)) \ LastMatchedCols
  /\ ~TooFar(D[r][c])

\* C37: an update matches an object only to its nearest detection, the one of
\* lowest index on ties.  An object whose nearest detection was taken or is
\* beyond max_distance stays unmatched, even when another detection within
\* max_distance is matched to no object, and that detection is registered as a
\* new track.
C37_OnlyNearestDetection ==
  (hist.nupdates > 0 /\ hist.detections # <<>> /\ hist.pre.objects # <<>>) =>
    LET D == LastD
    IN /\ \A k \in 1..Len(hist.pairs) :
            LET r == hist.pairs[k][1]
                c == hist.pairs[k][2]
            IN /\ \A c2 \in 1..Len(hist.detections) : D[r][c] <= D[r][c2]
               /\ \A c2 \in 1..(c - 1) : D[r][c] < D[r][c2]
       /\ \A r \in (1..Len(hist.pre.objects)) \ LastMatchedRows :
            \/ ArgMin(D, r) \in LastMatchedCols
            \/ TooFar(D[r][ArgMin(D, r)])
       /\ \A r \in 1..Len(hist.pre.objects), c \in 1..Len(hist.detections) :
            (PassedOver(D, r, c) /\ FreshIdsDistinct) =>
              \E i \in 1..Len(objects) :
                /\ objects[i].track_id \in LastNewIds
                /\ objects[i].centroid = Centroid(hist.detections[c])
                /\ objects[i].hits = 1

\* C37 witness: an object whose nearest detection went to another object stayed
\* unmatched, and a detection within max_distance of it became a new track.
C37_Witness ==
  /\ hist.nupdates > 0
  /\ FreshIdsDistinct
  /\ \E r \in 1..Len(hist.pre.objects), c \in 1..Len(hist.detections) :
       /\ PassedOver(LastD, r, c)
       /\ ArgMin(LastD, r) \in LastMatchedCols
       /\ hist.pre.objects[r].track_id \in Keys(objects)
       /\ ObjectOf(hist.pre.objects[r].track_id).time_since_update = 1
       /\ \E i \in 1..Len(objects) :
            /\ objects[i].track_id \in LastNewIds
            /\ objects[i].centroid = Centroid(hist.detections[c])

(***************************************************************************)
(* Claims about reset and the count of accepted frames (SpecGov)           *)
(***************************************************************************)
\* The offers accepted since the construction or the last reset.
AcceptedSinceReset ==
  {k \in (last_call.reset_at + 1)..Len(offers) : offers[k].accepted}

\* Offers j < k were both accepted, and none between them was.
ConsecutiveAccepted(j, k) ==
  /\ j < k
  /\ offers[j].accepted /\ offers[k].accepted
  /\ \A i \in (j + 1)..(k - 1) : ~offers[i].accepted

\* Offer k is at least the interval of the rate then in force after offer j.
IntervalApart(j, k) ==
  offers[k].rate > 0 => (offers[k].t - offers[j].t) * offers[k].rate >= 100

\* reset() was called after offer j and before offer k.
ResetBetween(j, k) ==
  last_call.resets > 0 /\ j <= last_call.reset_at /\ last_call.reset_at < k

\* The step is a should_process_frame call that dropped the frame.
DropStep == Len(offers') = Len(offers) + 1 /\ ~offers'[Len(offers')].accepted

\* C38 as stated: a dropping decision changes nothing in the limiter, the count
\* is the number of accept decisions since the construction or the last reset,
\* any two consecutive accepted frames are at least the then-current interval
\* apart, and with a target rate <= 0 every frame offered is accepted.
C38_AnyAcceptedPairIntervalApart ==
  /\ limiter # None => limiter[1].frame_count = Cardinality(AcceptedSinceReset)
  /\ \A j, k \in 1..Len(offers) : ConsecutiveAccepted(j, k) => IntervalApart(j, k)
  /\ \A k \in 1..Len(offers) : offers[k].rate <= 0 => offers[k].accepted

\* C38 amended: as stated, the interval holding between two consecutive
\* accepted frames that have no reset between them; the first frame offered
\* after a reset is accepted whatever the time since the frame accepted before.
C38_DropsLeaveLimiterCountIsAccepts ==
  /\ [](/\ limiter # None => limiter[1].frame_count = Cardinality(AcceptedSinceReset)
        /\ \A j, k \in 1..Len(offers) :
             (ConsecutiveAccepted(j, k) /\ ~ResetBetween(j, k)) => IntervalApart(j, k)
        /\ (last_call.resets > 0 /\ Len(offers) > last_call.reset_at)
             => offers[last_call.reset_at + 1].accepted
        /\ \A k \in 1..Len(offers) : offers[k].rate <= 0 => offers[k].accepted)
  /\ [][DropStep => limiter' = limiter]_vars

\* C38 witness: after a reset two frames were accepted and one dropped, the
\* count standing at 2 with three frames accepted since the construction.
C38_Witness ==
  /\ limiter # None
  /\ last_call.resets > 0
  /\ limiter[1].frame_count = 2
  /\ Cardinality({k \in 1..Len(offers) : offers[k].accepted}) = 3
  /\ ~offers[Len(offers)].accepted
  /\ last_call.op = "offer"

(***************************************************************************)
(* Claims about updates of a camera that does not exist (SpecAdmin)        *)
(***************************************************************************)
\* C39: an administrative update (camera, features or detection classes) for a
\* camera id that is not in the table ends with status 404, after one attempt
\* and no sleep.
C39_MissingCameraIsNotFound ==
  (admin.pc = "done" /\ ~CameraExists(admin.camera_id)) =>
    /\ admin.status = 404
    /\ admin.attempt = 0
    /\ admin.sleeps = <<>>

(***************************************************************************)
(* Claims about the result message (checked under SpecFrame)               *)
(***************************************************************************)
\* The tracked objects of the last result message.
LastTracked ==
  IF frame_call.result = None \/ LastResult.tracking = None THEN <<>>
  ELSE LastResult.tracking[1]

FailedOutsideIsolation ==
  \/ frame_call.stream = None
  \/ LastCamera.features.detection /\ LastCamera.active_models = None

C40_EndedHandlerLeavesNothing ==
  /\ \A s \in Subs :
       sub[s].pc = "done" => s \notin active_connections[CameraOf(s)]
  /\ \A c \in Cameras :
       (/\ \E s \in Subs : CameraOf(s) = c /\ sub[s].pc = "done"
        /\ \A s \in Subs : CameraOf(s) = c => sub[s].pc \in {"start", "done"})
         => ~running[c]

(***************************************************************************)
(* Claims about feature changes reaching a session (under SpecSession)     *)
(***************************************************************************)
\* C31: after the administrative route has switched a camera's tracking from
\* off to on while the camera has a session and a running subscriber loop, a
\* frame processed for the camera has a tracking block and the session has a
\* tracker; after a switch from on to off, a frame processed has no tracking
\* block and the session has no tracker.
C31_SwitchReachesRunningSession ==
  \A id \in RegistryIds :
    (reg_hist.op = "process_frame" /\ reg_hist.id = id) =>
      /\ session_hist.switched[id] = "on" =>
           session_hist.block /\ registry[id][1].tracker # None
      /\ session_hist.switched[id] = "off" =>
           ~session_hist.block /\ registry[id][1].tracker = None

====
